---------------------------- MODULE Spec2Model ----------------------------
(***************************************************************************)
(* A model of the tile query engines of adm87/tiled:                       *)
(*   - tiled.Tilemap   (src/tilemap.go)                                    *)
(*   - tilemap.Map     (src/unnamed/part_001)                              *)
(* together with the decoding helpers they share (src/decoding.go,         *)
(* src/helpers.go).                                                        *)
(*                                                                         *)
(* 32-bit cell values are kept as pairs <<top, low>>: top is the value of  *)
(* bits 28..31 (0..15) and low the value of bits 0..27, so that every      *)
(* number the model computes with stays inside TLC's integer range.        *)
(***************************************************************************)
EXTENDS Integers, Sequences, FiniteSets, Bags, TLC

(***************************************************************************)
(* Small helpers                                                           *)
(***************************************************************************)
\* 0x10000000, the value of bit 28: the unit of the pair representation
RotateHexFlag == 268435456

SetMax(S) == CHOOSE a \in S : \A b \in S : b <= a

Min2(a, b) == IF a < b THEN a ELSE b

Max2(a, b) == IF a > b THEN a ELSE b

RECURSIVE Concat(_)
Concat(ss) == IF ss = <<>> THEN <<>> ELSE Head(ss) \o Concat(Tail(ss))

SubSeqHalfOpen(s, start, end) == [k \in 1..(end - start) |-> s[start + k]]

(***************************************************************************)
(* src/decoding.go : DecodeGID                                             *)
(***************************************************************************)
FlipHorizontal == 1
FlipVertical == 2
FlipDiagonal == 4
FlipHex == 8

\* bit b (0..3) of the top nibble: 3 = 0x80000000, 2 = 0x40000000,
\* 1 = 0x20000000, 0 = 0x10000000
TopBit(cell, b) == (cell[1] \div (2 ^ b)) % 2 = 1

\* gid & GIDMask, with GIDMask = 0x1FFFFFFF: bits 0..28 are kept
MaskGID(cell) == (cell[1] % 2) * RotateHexFlag + cell[2]

\* a variant of DecodeGID without the diagonal composition
DecodeGIDPlain(gid) ==
    [tileID |-> MaskGID(gid),
     flags |-> (IF TopBit(gid, 3) THEN FlipHorizontal ELSE 0)
               + (IF TopBit(gid, 2) THEN FlipVertical ELSE 0)
               + (IF TopBit(gid, 1) THEN FlipDiagonal ELSE 0)]

DecodeGID(gid) ==
    LET h == TopBit(gid, 3)
        v == TopBit(gid, 2)
        d == TopBit(gid, 1)
        f0 == (IF h THEN FlipHorizontal ELSE 0) + (IF v THEN FlipVertical ELSE 0)
        \* flags ^= FlipHorizontal | FlipVertical, when one of them is set
        fx == (IF h THEN 0 ELSE FlipHorizontal) + (IF v THEN 0 ELSE FlipVertical)
        f1 == IF d
              THEN FlipDiagonal + (IF f0 # 0 THEN fx ELSE f0)
              ELSE f0
    IN  [tileID |-> MaskGID(gid), flags |-> f1]

(***************************************************************************)
(* src/decoding.go : DecodeContent, decodeCSV, decodeBase64                *)
(*                                                                         *)
(* A payload string is kept by its two readings: `tokens`, what            *)
(* strings.Split(content, ",") followed by TrimSpace gives, and `bytes`,   *)
(* what base64 decoding (and decompression) gives, with b64ok telling      *)
(* whether that decoding succeeds.  A token is                             *)
(*   [kind |-> "empty"]                  an empty or all-blank token       *)
(*   [kind |-> "bad"]                    not a decimal integer             *)
(*   [kind |-> "huge"]                   a decimal outside int64           *)
(*   [kind |-> "num", neg, hi, lo]       the integer +-(hi * 2^28 + lo)    *)
(***************************************************************************)
EncodingCSV == 0
EncodingBase64 == 1
CompressionNone == 0
CompressionZstd == 3

Num(hi, lo) == [kind |-> "num", neg |-> FALSE, hi |-> hi, lo |-> lo]

Csv(tokens) == [tokens |-> tokens, b64ok |-> FALSE, bytes |-> <<>>]

\* strconv.Atoi: ok and the parsed value, or an error
AtoiOk(tok) == tok.kind = "num"

\* uint32(tileIndex): the low 32 bits of the (two's complement) integer
Uint32(tok) ==
    IF ~tok.neg
    THEN <<tok.hi % 16, tok.lo>>
    ELSE IF tok.lo = 0
         THEN <<(16 - (tok.hi % 16)) % 16, 0>>
         ELSE <<15 - (tok.hi % 16), RotateHexFlag - tok.lo>>

\* a variant of decodeCSV that does not skip empty tokens
decodeCSVNoSkip(content) ==
    IF \E k \in 1..Len(content.tokens) : ~AtoiOk(content.tokens[k])
    THEN [err |-> TRUE, data |-> <<>>]
    ELSE [err |-> FALSE,
          data |-> [k \in 1..Len(content.tokens) |-> Uint32(content.tokens[k])]]

decodeCSV(content) ==
    LET toks == SelectSeq(content.tokens, LAMBDA t : t.kind # "empty")
    IN  IF \E k \in 1..Len(toks) : ~AtoiOk(toks[k])
        THEN [err |-> TRUE, data |-> <<>>]
        ELSE [err |-> FALSE, data |-> [k \in 1..Len(toks) |-> Uint32(toks[k])]]

\* four bytes, little-endian, make one cell value
WordLE(b0, b1, b2, b3) ==
    <<b3 \div 16, (b3 % 16) * 16777216 + b2 * 65536 + b1 * 256 + b0>>

decodeBase64(content, compression) ==
    IF ~content.b64ok
    THEN [err |-> TRUE, data |-> <<>>]
    ELSE IF compression < CompressionNone \/ compression > CompressionZstd
    THEN [err |-> TRUE, data |-> <<>>]
    ELSE IF Len(content.bytes) % 4 # 0
    THEN [err |-> TRUE, data |-> <<>>]
    ELSE [err |-> FALSE,
          data |-> [k \in 1..(Len(content.bytes) \div 4) |->
                      WordLE(content.bytes[4 * k - 3], content.bytes[4 * k - 2],
                             content.bytes[4 * k - 1], content.bytes[4 * k])]]

\* an encoding other than CSV and Base64 panics: no document of the model
\* carries one
DecodeContent(content, encoding, compression) ==
    IF encoding = EncodingCSV
    THEN decodeCSV(content)
    ELSE decodeBase64(content, compression)

(***************************************************************************)
(* src/helpers.go : TilesetByGID.  Tileset indices are 0-based as in the   *)
(* code; -1 is "no tileset".                                               *)
(***************************************************************************)
\* a variant of TilesetByGID that scans the tilesets from the first one
TilesetByGIDFirst(tmx, gid) ==
    LET S == {i \in 1..Len(tmx.Tilesets) : gid >= tmx.Tilesets[i].FirstGID}
    IN  IF S = {}
        THEN [tileID |-> 0, tsIdx |-> -1]
        ELSE [tileID |-> gid - tmx.Tilesets[CHOOSE i \in S : \A j \in S : i <= j].FirstGID,
              tsIdx |-> (CHOOSE i \in S : \A j \in S : i <= j) - 1]

TilesetByGID(tmx, gid) ==
    LET S == {i \in 1..Len(tmx.Tilesets) : gid >= tmx.Tilesets[i].FirstGID}
    IN  IF S = {}
        THEN [tileID |-> 0, tsIdx |-> -1]
        ELSE [tileID |-> gid - tmx.Tilesets[SetMax(S)].FirstGID,
              tsIdx |-> SetMax(S) - 1]

(***************************************************************************)
(* Documents (tiled.Tmx values, src/unnamed/part_000 lines 161-181 and     *)
(* 392-490).  Only the fields the query engines read are kept.             *)
(***************************************************************************)
TmxLayer(visible, w, h, content, chunks) ==
    [Visible |-> visible, Width |-> w, Height |-> h,
     Data |-> [Encoding |-> EncodingCSV, Compression |-> CompressionNone,
               Content |-> content, Chunks |-> chunks]]

TmxChunk(x, y, w, h, content) ==
    [X |-> x, Y |-> y, Width |-> w, Height |-> h, Content |-> content]

NoContent == Csv(<<>>)

Empty == [kind |-> "empty"]

\* finite, 2 x 2 tiles of 2 x 1 pixels, three layers
DocA ==
    [Infinite |-> FALSE, Width |-> 2, Height |-> 2, TileWidth |-> 2, TileHeight |-> 1,
     Tilesets |-> << [FirstGID |-> 2, Source |-> "a.tsx"],
                     [FirstGID |-> 4, Source |-> ""] >>,
     Layers |-> <<
        \* 0, 1 (below every FirstGID), 0x80000003, 5
        TmxLayer(TRUE, 2, 2,
                 Csv(<< Num(0, 0), Num(0, 1), Num(8, 3), Num(0, 5) >>), <<>>),
        \* not visible
        TmxLayer(FALSE, 2, 2,
                 Csv(<< Num(0, 4), Num(0, 4), Num(0, 4), Num(0, 4) >>), <<>>),
        \* 0x80000000 (tile id 0), an empty token, 2, 6: one value short of
        \* Width * Height
        TmxLayer(TRUE, 2, 2,
                 Csv(<< Num(8, 0), Empty, Num(0, 2), Num(0, 6) >>), <<>>)
     >>]

\* infinite, tiles of 2 x 1 pixels, two layers of chunks
DocB ==
    [Infinite |-> TRUE, Width |-> 2, Height |-> 2, TileWidth |-> 2, TileHeight |-> 1,
     Tilesets |-> << [FirstGID |-> 1, Source |-> "b.tsx"] >>,
     Layers |-> <<
        \* two adjacent chunks, 1 x 2 each
        TmxLayer(TRUE, 2, 2, NoContent,
                 << TmxChunk(0, 0, 1, 2, Csv(<< Num(0, 1), Num(0, 0) >>)),
                    TmxChunk(1, 0, 1, 2, Csv(<< Num(0, 4), Num(4, 6) >>)) >>),
        \* two chunks that overlap in the cell (0, 0)
        TmxLayer(TRUE, 2, 2, NoContent,
                 << TmxChunk(-1, 0, 2, 1, Csv(<< Num(0, 7), Num(0, 0) >>)),
                    TmxChunk(0, 0, 1, 1, Csv(<< Num(0, 8) >>)) >>)
     >>]

\* finite, 2 x 2 tiles of 1 x 1 pixel, one layer
DocC ==
    [Infinite |-> FALSE, Width |-> 2, Height |-> 2, TileWidth |-> 1, TileHeight |-> 1,
     Tilesets |-> << [FirstGID |-> 1, Source |-> "c.tsx"] >>,
     Layers |-> <<
        TmxLayer(TRUE, 2, 2,
                 Csv(<< Num(0, 9), Num(0, 0), Num(0, 0), Num(0, 9) >>), <<>>)
     >>]

\* no layers: rejected by SetTmx
DocNoLayers ==
    [Infinite |-> FALSE, Width |-> 2, Height |-> 2, TileWidth |-> 2, TileHeight |-> 1,
     Tilesets |-> << [FirstGID |-> 1, Source |-> "z.tsx"] >>,
     Layers |-> << >>]

\* a CSV payload with a token that is no number
DocBadCSV ==
    [Infinite |-> FALSE, Width |-> 2, Height |-> 2, TileWidth |-> 2, TileHeight |-> 1,
     Tilesets |-> << [FirstGID |-> 1, Source |-> "x.tsx"] >>,
     Layers |-> <<
        TmxLayer(TRUE, 2, 2,
                 Csv(<< Num(0, 1), [kind |-> "bad"], Num(0, 1) >>), <<>>)
     >>]

\* finite, one tile, no tileset at all
DocNoTilesets ==
    [Infinite |-> FALSE, Width |-> 1, Height |-> 1, TileWidth |-> 2, TileHeight |-> 1,
     Tilesets |-> << >>,
     Layers |-> << TmxLayer(TRUE, 1, 1, Csv(<< Num(0, 1) >>), <<>>) >>]

\* infinite, one layer that holds no chunk
DocNoChunks ==
    [Infinite |-> TRUE, Width |-> 2, Height |-> 2, TileWidth |-> 2, TileHeight |-> 1,
     Tilesets |-> << [FirstGID |-> 1, Source |-> "n.tsx"] >>,
     Layers |-> << TmxLayer(TRUE, 2, 2, NoContent, <<>>) >>]

\* a Base64 payload: its text is no number, its bytes are the cells
Base64(bytes) == [tokens |-> << [kind |-> "bad"] >>, b64ok |-> TRUE, bytes |-> bytes]

\* finite, 2 x 1 tiles, the cells 1 and 2 as Base64, plain and compressed
DocBase64 ==
    [Infinite |-> FALSE, Width |-> 2, Height |-> 1, TileWidth |-> 2, TileHeight |-> 1,
     Tilesets |-> << [FirstGID |-> 1, Source |-> "e.tsx"] >>,
     Layers |-> <<
        [TmxLayer(TRUE, 2, 1, Base64(<< 1, 0, 0, 0, 2, 0, 0, 0 >>), <<>>)
            EXCEPT !.Data.Encoding = EncodingBase64],
        [TmxLayer(TRUE, 2, 1, Base64(<< 1, 0, 0, 0, 2, 0, 0, 0 >>), <<>>)
            EXCEPT !.Data.Encoding = EncodingBase64,
                   !.Data.Compression = CompressionZstd]
     >>]

\* the same cells as CSV
DocBase64AsCSV ==
    [DocBase64 EXCEPT
        !.Layers = << TmxLayer(TRUE, 2, 1, Csv(<< Num(0, 1), Num(0, 2) >>), <<>>),
                      TmxLayer(TRUE, 2, 1, Csv(<< Num(0, 1), Num(0, 2) >>), <<>>) >>]

\* the documents that differ in the encoding of the payload only
EncodedDocs == << DocBase64, DocBase64AsCSV >>

\* finite, 5 x 4 tiles of 1 x 1 pixel, four layers, a tile in every cell: more
\* tiles than a new Tilemap's buffer holds
DocWide ==
    [Infinite |-> FALSE, Width |-> 5, Height |-> 4, TileWidth |-> 1, TileHeight |-> 1,
     Tilesets |-> << [FirstGID |-> 1, Source |-> "w.tsx"] >>,
     Layers |-> [i \in 1..4 |->
                   TmxLayer(TRUE, 5, 4, Csv([k \in 1..(5 * 4) |-> Num(0, i)]), <<>>)]]

WideDocs == << DocWide >>

Docs ==
    << DocA, DocB, DocC, DocNoLayers, DocBadCSV, DocNoTilesets, DocNoChunks >>
        \o WideDocs \o EncodedDocs

\* a *Tmx is an index into Docs; 0 is the nil pointer
NilTmx == 0

\* the documents a session sets; the encoded ones are set on a fresh Map each
TmxRefs == 0..(Len(Docs) - Len(EncodedDocs) - Len(WideDocs))

WideRef == Len(Docs) - Len(EncodedDocs)

EncodedRefs == (Len(Docs) - Len(EncodedDocs) + 1)..Len(Docs)

IsVisible(layer) == layer.Visible

IsInfinite(tmx) == tmx.Infinite

(***************************************************************************)
(* 32-bit signed arithmetic (Go int32: addition and multiplication wrap)   *)
(***************************************************************************)
MaxInt32 == 2147483647

MinInt32 == (-MaxInt32) - 1

Add32(a, b) ==
    IF a > 0 /\ b > 0 /\ a > MaxInt32 - b
    THEN (a + MinInt32) + (b + MinInt32)
    ELSE IF a < 0 /\ b < 0 /\ a < MinInt32 - b
    THEN (a - MinInt32) + (b - MinInt32)
    ELSE a + b

\* a * n for a tile size n >= 0
RECURSIVE Mul32(_, _)
Mul32(a, n) == IF n = 0 THEN 0 ELSE Add32(Mul32(a, n - 1), a)

(***************************************************************************)
(* src/tilemap.go : TileRegion, TileData, TileKey                          *)
(***************************************************************************)
TileRegion(minX, minY, maxX, maxY) ==
    [MinX |-> minX, MinY |-> minY, MaxX |-> maxX, MaxY |-> maxY]

ZeroRegion == TileRegion(0, 0, 0, 0)

RegionEqual(tr, other) ==
    /\ tr.MinX = other.MinX
    /\ tr.MinY = other.MinY
    /\ tr.MaxX = other.MaxX
    /\ tr.MaxY = other.MaxY

RegionWidth(tr) == tr.MaxX - tr.MinX

RegionHeight(tr) == tr.MaxY - tr.MinY

CompatibleForCaching(tr, other) ==
    LET widthDiff == RegionWidth(tr) - RegionWidth(other)
        heightDiff == RegionHeight(tr) - RegionHeight(other)
    IN  widthDiff >= -1 /\ widthDiff <= 1 /\ heightDiff >= -1 /\ heightDiff <= 1

ZeroTile == [X |-> 0, Y |-> 0, TileID |-> 0, TsIdx |-> 0, FlipFlag |-> 0]

\* int64(x)<<32 | int64(uint32(y)): the high word is x and the low word the
\* bit pattern of y, so a key is the pair of the two words
NewTileKey(x, y) == <<x, y>>

NoTiles == [k \in {} |-> ZeroTile]

MapPut(f, k, v) == [a \in (DOMAIN f) \cup {k} |-> IF a = k THEN v ELSE f[a]]

(***************************************************************************)
(* src/tilemap.go : getTile, getTileAt, getChunkTileAt                     *)
(* A lookup returns found, the tile, and the layer with its memo map as    *)
(* the lookup leaves it.  Layers and chunks are indexed from 1.            *)
(***************************************************************************)
\* the tile built once the tileset lookup is done
TileInTileset(tmx, x, y, g, ts) ==
    IF ts.tsIdx = -1
    THEN [found |-> FALSE, tile |-> ZeroTile]
    ELSE [found |-> TRUE,
          tile |-> [TsIdx |-> ts.tsIdx,
                    X |-> Mul32(x, tmx.TileWidth),
                    Y |-> Mul32(y, tmx.TileHeight),
                    TileID |-> ts.tileID,
                    FlipFlag |-> g.flags]]

\* the rest of getTile once the cell value is decoded into g
TileOfGID(tmx, x, y, g) ==
    IF g.tileID = 0
    THEN [found |-> FALSE, tile |-> ZeroTile]
    ELSE TileInTileset(tmx, x, y, g, TilesetByGID(tmx, g.tileID))

getTile(tmx, x, y, content) == TileOfGID(tmx, x, y, DecodeGID(content))

NotFound(layer) == [found |-> FALSE, tile |-> ZeroTile, layer |-> layer]

\* a found tile is stored in the layer's memo map and returned
Memoized(layer, idx, tile) ==
    [found |-> TRUE, tile |-> tile,
     layer |-> [layer EXCEPT !.Tiles = MapPut(@, idx, tile)]]

\* the loop over layer.Chunks, from chunk i on; chunkTile is its tail once
\* getTile has answered with t for chunk i
RECURSIVE chunkLoop(_, _, _, _, _, _)
RECURSIVE chunkTile(_, _, _, _, _, _, _)
chunkTile(tmx, layer, x, y, layerIdx, i, t) ==
    IF t.found
    THEN Memoized(layer, NewTileKey(x, y), t.tile)
    ELSE chunkLoop(tmx, layer, x, y, layerIdx, i + 1)

\* a variant of ChunkLocalIdx that forgets the chunk's origin
ChunkLocalIdxGlobal(chunk, x, y) == y * chunk.Width + x

\* the chunk of the document and the cell index a coordinate has in it
ChunkLocalIdx(chunk, x, y) == (y - chunk.Y) * chunk.Width + (x - chunk.X)

InChunk(chunk, x, y) ==
    ~(x < chunk.X \/ x >= chunk.X + chunk.Width
      \/ y < chunk.Y \/ y >= chunk.Y + chunk.Height)

chunkCell(chunk, data, tmx, layer, x, y, layerIdx, i, localIdx) ==
    IF localIdx < 0 \/ localIdx >= Len(data)
    THEN NotFound(layer)
    ELSE IF data[localIdx + 1] = <<0, 0>>
    THEN NotFound(layer)
    ELSE chunkTile(tmx, layer, x, y, layerIdx, i,
                   getTile(tmx, x, y, data[localIdx + 1]))

chunkLoop(tmx, layer, x, y, layerIdx, i) ==
    IF i > Len(layer.Chunks)
    THEN NotFound(layer)
    ELSE IF ~InChunk(tmx.Layers[layerIdx].Data.Chunks[i], x, y)
    THEN chunkLoop(tmx, layer, x, y, layerIdx, i + 1)
    ELSE chunkCell(tmx.Layers[layerIdx].Data.Chunks[i], layer.Chunks[i],
                   tmx, layer, x, y, layerIdx, i,
                   ChunkLocalIdx(tmx.Layers[layerIdx].Data.Chunks[i], x, y))

MemoHit(layer, idx) == [found |-> TRUE, tile |-> layer.Tiles[idx], layer |-> layer]

getChunkTileAt(tmx, layer, x, y, layerIdx) ==
    IF NewTileKey(x, y) \in DOMAIN layer.Tiles
    THEN MemoHit(layer, NewTileKey(x, y))
    ELSE chunkLoop(tmx, layer, x, y, layerIdx, 1)

\* a variant of finiteTile that memoizes whatever getTile answered
finiteTileAlwaysMemo(layer, idx, t) ==
    [Memoized(layer, idx, t.tile) EXCEPT !.found = t.found]

\* the end of the finite branch of getTileAt once getTile has answered with t
finiteTile(layer, idx, t) ==
    IF t.found THEN Memoized(layer, idx, t.tile) ELSE NotFound(layer)

finiteCell(tmx, layer, x, y, i) ==
    IF i < 0 \/ i >= Len(layer.Content)
    THEN NotFound(layer)
    ELSE IF layer.Content[i + 1] = <<0, 0>>
    THEN NotFound(layer)
    ELSE finiteTile(layer, NewTileKey(x, y), getTile(tmx, x, y, layer.Content[i + 1]))

getTileAt(tmx, layer, x, y, layerIdx) ==
    IF IsInfinite(tmx)
    THEN getChunkTileAt(tmx, layer, x, y, layerIdx)
    ELSE IF x < 0 \/ x >= tmx.Width \/ y < 0 \/ y >= tmx.Height
    THEN NotFound(layer)
    ELSE IF NewTileKey(x, y) \in DOMAIN layer.Tiles
    THEN MemoHit(layer, NewTileKey(x, y))
    ELSE finiteCell(tmx, layer, x, y, y * tmx.Width + x)

(***************************************************************************)
(* src/tilemap.go : decodeTilemapLayers, decodeTilemapChunks,              *)
(* calculateTileBounds, calculateQueryRegion                               *)
(***************************************************************************)
decodeTilemapChunks(layer) ==
    LET dec == [i \in 1..Len(layer.Data.Chunks) |->
                  DecodeContent(layer.Data.Chunks[i].Content,
                                layer.Data.Encoding, layer.Data.Compression)]
    IN  IF \E i \in 1..Len(dec) : dec[i].err
        THEN [err |-> TRUE, chunks |-> <<>>]
        ELSE [err |-> FALSE, chunks |-> [i \in 1..Len(dec) |-> dec[i].data]]

decodeTilemapLayers(tmx) ==
    LET ch == [i \in 1..Len(tmx.Layers) |-> decodeTilemapChunks(tmx.Layers[i])]
        dc == [i \in 1..Len(tmx.Layers) |->
                 DecodeContent(tmx.Layers[i].Data.Content,
                               tmx.Layers[i].Data.Encoding,
                               tmx.Layers[i].Data.Compression)]
        bad(i) == IF IsInfinite(tmx) THEN ch[i].err ELSE dc[i].err
    IN  IF \E i \in 1..Len(tmx.Layers) : bad(i)
        THEN [err |-> TRUE, layers |-> <<>>]
        ELSE [err |-> FALSE,
              layers |-> [i \in 1..Len(tmx.Layers) |->
                            [Content |-> IF IsInfinite(tmx) THEN <<>> ELSE dc[i].data,
                             Chunks |-> IF IsInfinite(tmx) THEN ch[i].chunks ELSE <<>>,
                             Tiles |-> NoTiles]]]

\* a variant of AllChunks that stops after the first layer
FirstLayerChunks(tmx) == tmx.Layers[1].Data.Chunks

\* every chunk of every layer, in document order
AllChunks(tmx) == Concat([i \in 1..Len(tmx.Layers) |-> tmx.Layers[i].Data.Chunks])

RECURSIVE boundsLoop(_, _, _)
boundsLoop(chunks, k, acc) ==
    IF k > Len(chunks)
    THEN acc
    ELSE boundsLoop(chunks, k + 1,
             [minX |-> Min2(acc.minX, chunks[k].X),
              minY |-> Min2(acc.minY, chunks[k].Y),
              maxX |-> Max2(acc.maxX, Add32(chunks[k].X, chunks[k].Width)),
              maxY |-> Max2(acc.maxY, Add32(chunks[k].Y, chunks[k].Height))])

calculateTileInfiniteBounds(tmx) ==
    LET b == boundsLoop(AllChunks(tmx), 1,
                        [minX |-> MaxInt32, minY |-> MaxInt32,
                         maxX |-> MinInt32, maxY |-> MinInt32])
    IN  [minX |-> Mul32(b.minX, tmx.TileWidth), minY |-> Mul32(b.minY, tmx.TileHeight),
         maxX |-> Mul32(b.maxX, tmx.TileWidth), maxY |-> Mul32(b.maxY, tmx.TileHeight)]

calculateTileBounds(tmx) ==
    IF IsInfinite(tmx)
    THEN calculateTileInfiniteBounds(tmx)
    ELSE [minX |-> 0, minY |-> 0,
          maxX |-> Mul32(tmx.Width, tmx.TileWidth),
          maxY |-> Mul32(tmx.Height, tmx.TileHeight)]

\* math.Floor(a / b) and math.Ceil(a / b) for a tile size b > 0
\* a variant of FloorDiv that rounds toward zero
FloorDivTruncated(a, b) == IF a >= 0 THEN a \div b ELSE -((-a) \div b)

FloorDiv(a, b) == a \div b

CeilDiv(a, b) == -((-a) \div b)

\* a frame is <<minX, minY, maxX, maxY>> in world coordinates
calculateQueryRegion(frame, tileWidth, tileHeight) ==
    TileRegion(FloorDiv(frame[1], tileWidth), FloorDiv(frame[2], tileHeight),
               CeilDiv(frame[3], tileWidth), CeilDiv(frame[4], tileHeight))

(***************************************************************************)
(* src/tilemap.go : Tilemap.updateCache, Tilemap.buildIterator,            *)
(* TileIterator.Next                                                       *)
(***************************************************************************)
\* a variant of RegionCells that leaves out the last row of the region
RegionCellsShort(region) ==
    IF RegionWidth(region) <= 0 \/ RegionHeight(region) <= 1
    THEN <<>>
    ELSE [k \in 1..(RegionWidth(region) * (RegionHeight(region) - 1)) |->
            <<region.MinX + ((k - 1) % RegionWidth(region)),
              region.MinY + ((k - 1) \div RegionWidth(region))>>]

\* the cells of a region in the order of the loops: y outer, x inner
RegionCells(region) ==
    LET w == RegionWidth(region)
        h == RegionHeight(region)
    IN  IF w <= 0 \/ h <= 0
        THEN <<>>
        ELSE [k \in 1..(w * h) |->
                <<region.MinX + ((k - 1) % w), region.MinY + ((k - 1) \div w)>>]

\* updateCache works on the cache as it is being filled: c is the record of
\* the decoded layers (their memo maps), the tile buffer and the offsets.
\* One found tile is appended to the buffer.
CacheAppend(c, i, r) ==
    [c EXCEPT !.layers[i] = r.layer,
              !.data = IF r.found THEN Append(@, r.tile) ELSE @]

\* the two inner loops of updateCache over layer i, from cell k on
RECURSIVE scanCells(_, _, _, _, _)
scanCells(tmx, c, cells, i, k) ==
    IF k > Len(cells)
    THEN c
    ELSE scanCells(tmx,
                   CacheAppend(c, i, getTileAt(tmx, c.layers[i], cells[k][1], cells[k][2], i)),
                   cells, i, k + 1)

\* the body of the loop over the layers: the start offset, then the tiles of
\* a visible layer
scanLayer(tmx, region, c, i) ==
    IF IsVisible(tmx.Layers[i])
    THEN scanCells(tmx, [c EXCEPT !.positions = Append(@, Len(c.data))],
                   RegionCells(region), i, 1)
    ELSE [c EXCEPT !.positions = Append(@, Len(c.data))]

\* the loop of updateCache over the layers, from layer i on
RECURSIVE layersLoop(_, _, _, _)
layersLoop(tmx, region, c, i) ==
    IF i > Len(c.layers)
    THEN c
    ELSE layersLoop(tmx, region, scanLayer(tmx, region, c, i), i + 1)

\* a variant of CacheFilled that leaves out the final offset
CacheFilledNoEnd(t, region, c) ==
    [t EXCEPT !.cachedTileRegion = region,
              !.cachedTileData = c.data,
              !.cachedPositions = c.positions,
              !.decodedLayers = c.layers]

\* the fields updateCache has written when it returns
CacheFilled(t, region, c) ==
    [t EXCEPT !.cachedTileRegion = region,
              !.cachedTileData = c.data,
              !.cachedPositions = Append(c.positions, Len(c.data)),
              !.decodedLayers = c.layers]

updateCache(t, region) ==
    CacheFilled(t, region,
                layersLoop(Docs[t.Tmx], region,
                           [layers |-> t.decodedLayers, data |-> <<>>, positions |-> <<>>], 1))

\* the iterator owns copies of the two buffers
buildIterator(t) ==
    [tiles |-> t.cachedTileData, positions |-> t.cachedPositions, index |-> 0]

\* TileIterator{}
EmptyIterator == [tiles |-> <<>>, positions |-> <<>>, index |-> 0]

IterHasNext(ti) == ti.index < Len(ti.positions) - 1

\* the slice Next returns when it does not return nil (positions are 0-based
\* offsets; index counts from 0)
IterSlice(ti) ==
    SubSeqHalfOpen(ti.tiles, ti.positions[ti.index + 1], ti.positions[ti.index + 2])

IterNext(ti) ==
    IF ti.index >= Len(ti.positions) - 1
    THEN [nil |-> TRUE, slice |-> <<>>, ti |-> ti]
    ELSE [nil |-> FALSE, slice |-> IterSlice(ti), ti |-> [ti EXCEPT !.index = @ + 1]]

\* what a consumer loop `for tiles := itr.Next(); tiles != nil; ...` collects
RECURSIVE Drain(_)
Drain(ti) ==
    LET n == IterNext(ti)
    IN  IF n.nil THEN <<>> ELSE <<n.slice>> \o Drain(n.ti)

(***************************************************************************)
(* Bounds of the model: the frames a client queries                        *)
(***************************************************************************)
MaxFrameX == 3

MaxFrameY == 2

FrameMargin == 1

\* left of the origin, the origin, one unit in, and the far edge
FrameXs == {0 - FrameMargin, 0, 1, MaxFrameX}

FrameYs == {0, MaxFrameY}

\* <<minX, minY, maxX, maxY>>; frames with min > max are included
Frames == FrameXs \X FrameYs \X FrameXs \X FrameYs

\* the frames a client of tilemap.Map sets: nothing, the first column, and
\* the whole map from left of the origin
MapFrames ==
    {<<0, 0, 0, 0>>, <<0, 0, 1, MaxFrameY>>,
     <<0 - FrameMargin, 0, MaxFrameX, MaxFrameY>>}

(***************************************************************************)
(* State                                                                   *)
(*   target  which of the two engines the client program drives            *)
(*   tm      the fields of the tiled.Tilemap                               *)
(*   itr     the TileIterator the last GetTiles returned; the client       *)
(*           drops it when it calls SetTmx or FlushCache                   *)
(*   ret     the outcome of the last call: its name, its error ("" for     *)
(*           nil) and the path it took                                     *)
(*   m       the fields of the tilemap.Map                                 *)
(*   chunkPool, layerPool                                                  *)
(*           the package-level sync.Pools of part_001: the bag of the      *)
(*           Chunks put back, and the number of Layers put back            *)
(*   heap, cm, threads                                                     *)
(*           one Map shared by goroutines: the backing arrays of its       *)
(*           slices, its fields, and each goroutine's position and locals  *)
(*   store   the two buffers of the Tilemap as slices over heap, and the   *)
(*           iterators its client still holds                              *)
(*   own     the Chunk and Layer objects of the Maps that share the pools: *)
(*           which Map holds which, and which lie in a pool                *)
(***************************************************************************)
VARIABLES target, tm, itr, ret, hist, decodeFailed, m, chunkPool, layerPool, swaps,
          calc,
          heap, cm, threads,
          store, own

vars == <<target, tm, itr, ret, hist, decodeFailed, m, chunkPool, layerPool, swaps,
          calc,
          heap, cm, threads,
          store, own>>

mapVars == <<m, chunkPool, layerPool, swaps>>

concVars == <<heap, cm, threads>>

objVars == <<store, own>>

seqVars == <<tm, itr, ret, hist, decodeFailed, mapVars>>

ErrNoTmxData == "no Tmx data set"
ErrInvalidTmxData == "invalid Tmx data"
ErrTilesetNotFound == "tileset not found"
ErrTilesetSource == "tileset source is empty"
ErrInvalidBounds == "invalid coordinate bounds: min > max"
ErrDecode == "invalid CSV layer data"

\* the nil *Tileset; a non-nil one is the index it points at in Tmx.Tilesets
NilTileset == -1

Ret(op, err, path) == [op |-> op, err |-> err, path |-> path, ts |-> NilTileset]

\* what a GetTileset returned
RetTileset(r) == [op |-> "GetTileset", err |-> r.err, path |-> "none", ts |-> r.ts]

\* the indexes GetTileset is called with
MaxTilesetIndex == 2
TilesetIdx == -1..MaxTilesetIndex

\* hist is a history variable, not a field of the program: "none" until a
\* document is set, "set" once SetTmx succeeded, "served" once a query then
\* filled the cache, "swapped" once SetTmx succeeded again after that
HistAfterSetTmx(err) ==
    IF err # ""
    THEN hist
    ELSE IF hist \in {"served", "swapped"} THEN "swapped" ELSE "set"

\* decodeFailed is a history variable too: the last SetTmx that got past the
\* check of its argument failed to decode the document
FailedAfterSetTmx(err) ==
    IF err = "" THEN FALSE ELSE IF err = ErrDecode THEN TRUE ELSE decodeFailed

HistAfterQuery(err, path) ==
    IF err = "" /\ path \in {"rebuild", "compatible"} /\ hist = "set"
    THEN "served"
    ELSE hist

NewTilemap ==
    [Tmx |-> NilTmx,
     cachedTileRegion |-> ZeroRegion,
     cachedTileData |-> <<>>,
     cachedPositions |-> <<>>,
     minX |-> 0, minY |-> 0, maxX |-> 0, maxY |-> 0,
     decodedLayers |-> <<>>]

FlushCache(t) ==
    [t EXCEPT !.cachedTileRegion = ZeroRegion,
              !.cachedTileData = <<>>,
              !.cachedPositions = <<>>]

\* the fields SetTmx assigns once the layers are decoded without error
TmxInstalled(t, tmx, layers, b) ==
    [t EXCEPT !.Tmx = tmx,
              !.minX = b.minX, !.minY = b.minY,
              !.maxX = b.maxX, !.maxY = b.maxY,
              !.decodedLayers = layers]

\* a variant of SetTmxDecoded that assigns the document before it looks at
\* the decode error
SetTmxDecodedTmxFirst(t, tmx, dec) ==
    IF dec.err
    THEN [tm |-> [t EXCEPT !.Tmx = tmx], err |-> ErrDecode]
    ELSE [tm |-> TmxInstalled(t, tmx, dec.layers, calculateTileBounds(Docs[tmx])), err |-> ""]

\* SetTmx after FlushCache, dec being the result of decodeTilemapLayers
SetTmxDecoded(t, tmx, dec) ==
    IF dec.err
    THEN [tm |-> t, err |-> ErrDecode]
    ELSE [tm |-> TmxInstalled(t, tmx, dec.layers, calculateTileBounds(Docs[tmx])),
          err |-> ""]

\* a variant of SetTmx that flushes the cache before it checks its argument
SetTmxFlushFirst(t, tmx) ==
    IF tmx = NilTmx
    THEN [tm |-> FlushCache(t), err |-> ErrInvalidTmxData]
    ELSE IF Len(Docs[tmx].Layers) = 0
    THEN [tm |-> FlushCache(t), err |-> ErrInvalidTmxData]
    ELSE SetTmxDecoded(FlushCache(t), tmx, decodeTilemapLayers(Docs[tmx]))

\* Tilemap.SetTmx: the map after the call and the error returned
SetTmx(t, tmx) ==
    IF tmx = NilTmx
    THEN [tm |-> t, err |-> ErrInvalidTmxData]
    ELSE IF Len(Docs[tmx].Layers) = 0
    THEN [tm |-> t, err |-> ErrInvalidTmxData]
    ELSE SetTmxDecoded(FlushCache(t), tmx, decodeTilemapLayers(Docs[tmx]))

\* what GetTiles returns after updateCache left the map as u
Rebuilt(u, path) == [tm |-> u, itr |-> buildIterator(u), err |-> "", path |-> path]

\* a variant of GetTilesRegion whose exact hit returns no buffers
GetTilesRegionHitEmpty(t, queryRegion) ==
    IF RegionEqual(queryRegion, t.cachedTileRegion)
    THEN [tm |-> t, itr |-> EmptyIterator, err |-> "", path |-> "hit"]
    ELSE Rebuilt(updateCache(t, queryRegion),
                 IF CompatibleForCaching(queryRegion, t.cachedTileRegion)
                 THEN "compatible" ELSE "rebuild")

\* a variant of GetTilesRegion that rebuilds the cache on every query
GetTilesRegionAlwaysRebuild(t, queryRegion) ==
    Rebuilt(updateCache(t, queryRegion),
            IF RegionEqual(queryRegion, t.cachedTileRegion)
            THEN "hit"
            ELSE IF CompatibleForCaching(queryRegion, t.cachedTileRegion)
            THEN "compatible" ELSE "rebuild")

GetTilesRegion(t, queryRegion) ==
    IF RegionEqual(queryRegion, t.cachedTileRegion)
    THEN [tm |-> t, itr |-> buildIterator(t), err |-> "", path |-> "hit"]
    ELSE Rebuilt(updateCache(t, queryRegion),
                 IF CompatibleForCaching(queryRegion, t.cachedTileRegion)
                 THEN "compatible" ELSE "rebuild")

\* a variant of GetTiles that drops the cache when it refuses a frame
GetTilesFlushOnInvalid(t, frame) ==
    IF t.Tmx = NilTmx \/ Len(t.decodedLayers) = 0
    THEN [tm |-> t, itr |-> EmptyIterator, err |-> ErrNoTmxData, path |-> "none"]
    ELSE IF frame[1] > frame[3] \/ frame[2] > frame[4]
    THEN [tm |-> FlushCache(t), itr |-> EmptyIterator, err |-> ErrInvalidBounds,
          path |-> "none"]
    ELSE GetTilesRegion(t, calculateQueryRegion(frame, Docs[t.Tmx].TileWidth,
                                                Docs[t.Tmx].TileHeight))

\* Tilemap.GetTiles: the map after the call, the iterator and error returned,
\* and the path taken
GetTiles(t, frame) ==
    IF t.Tmx = NilTmx \/ Len(t.decodedLayers) = 0
    THEN [tm |-> t, itr |-> EmptyIterator, err |-> ErrNoTmxData, path |-> "none"]
    ELSE IF frame[1] > frame[3] \/ frame[2] > frame[4]
    THEN [tm |-> t, itr |-> EmptyIterator, err |-> ErrInvalidBounds, path |-> "none"]
    ELSE GetTilesRegion(t, calculateQueryRegion(frame, Docs[t.Tmx].TileWidth,
                                                Docs[t.Tmx].TileHeight))

\* a variant of TilesetOf that never reports a missing document
TilesetOfUnchecked(tmx, index) ==
    IF tmx = NilTmx
    THEN [ts |-> NilTileset, err |-> ErrTilesetNotFound]
    ELSE IF Len(Docs[tmx].Tilesets) = 0
    THEN [ts |-> NilTileset, err |-> ErrTilesetNotFound]
    ELSE IF index < 0 \/ index >= Len(Docs[tmx].Tilesets)
    THEN [ts |-> NilTileset, err |-> ErrTilesetNotFound]
    ELSE IF Docs[tmx].Tilesets[index + 1].Source = ""
    THEN [ts |-> NilTileset, err |-> ErrTilesetSource]
    ELSE [ts |-> index, err |-> ""]

\* GetTileset on the document a map holds
TilesetOf(tmx, index) ==
    IF tmx = NilTmx
    THEN [ts |-> NilTileset, err |-> ErrNoTmxData]
    ELSE IF Len(Docs[tmx].Tilesets) = 0
    THEN [ts |-> NilTileset, err |-> ErrNoTmxData]
    ELSE IF index < 0 \/ index >= Len(Docs[tmx].Tilesets)
    THEN [ts |-> NilTileset, err |-> ErrTilesetNotFound]
    ELSE IF Docs[tmx].Tilesets[index + 1].Source = ""
    THEN [ts |-> NilTileset, err |-> ErrTilesetSource]
    ELSE [ts |-> index, err |-> ""]

\* Tilemap.GetTileset
GetTileset(t, index) == TilesetOf(t.Tmx, index)

SetTmxReturned(r) ==
    /\ tm' = r.tm
    /\ ret' = Ret("SetTmx", r.err, "none")
    /\ hist' = HistAfterSetTmx(r.err)
    /\ decodeFailed' = FailedAfterSetTmx(r.err)

\* Tilemap.Bounds
Bounds(t) == <<t.minX, t.minY, t.maxX, t.maxY>>

TmSetTmx(tmx) ==
    /\ target = "Tilemap"
    /\ SetTmxReturned(SetTmx(tm, tmx))
    /\ itr' = EmptyIterator
    /\ UNCHANGED <<concVars, objVars, calc, target, mapVars>>

TmFlushCache ==
    /\ target = "Tilemap"
    /\ tm' = FlushCache(tm)
    /\ ret' = Ret("FlushCache", "", "none")
    /\ itr' = EmptyIterator
    /\ UNCHANGED <<concVars, objVars, calc, target, hist, decodeFailed, mapVars>>

GetTilesReturned(r) ==
    /\ tm' = r.tm
    /\ itr' = r.itr
    /\ ret' = Ret("GetTiles", r.err, r.path)
    /\ hist' = HistAfterQuery(r.err, r.path)
    /\ UNCHANGED decodeFailed

TmGetTiles(frame) ==
    /\ target = "Tilemap"
    /\ GetTilesReturned(GetTiles(tm, frame))
    /\ UNCHANGED <<concVars, objVars, calc, target, mapVars>>

TmGetTileset(index) ==
    /\ target = "Tilemap"
    /\ ret' = RetTileset(GetTileset(tm, index))
    /\ itr' = EmptyIterator
    /\ UNCHANGED <<concVars, objVars, calc, target, tm, hist, decodeFailed, mapVars>>

NextReturned(n) ==
    /\ itr' = n.ti
    /\ ret' = Ret("Next", "", IF n.nil THEN "nil" ELSE "slice")

\* one call of Next on the iterator the last GetTiles returned
TmNext ==
    /\ target = "Tilemap"
    /\ ret.op \in {"GetTiles", "Next"}
    /\ NextReturned(IterNext(itr))
    /\ UNCHANGED <<concVars, objVars, calc, target, tm, hist, decodeFailed, mapVars>>

(***************************************************************************)
(* src/unnamed/part_001 : tilemap.Map                                      *)
(*                                                                         *)
(* A Chunk is kept as the record of its fields.  A Layer is its hash.Grid: *)
(* the cell size given to Resize and the items inserted, in insertion      *)
(* order, each with the bounds it was inserted with.  hash.Grid is a       *)
(* library outside the repository; the model takes Query to return every   *)
(* item whose bounds overlap the queried rectangle, once, in insertion     *)
(* order, ForEach to visit every item once and Clear to remove them all.   *)
(***************************************************************************)
MaxPool == 1

\* the documents a client sets on one Map, one after the other
MaxSwaps == 2

\* decodes of one payload are counted up to MaxDecodes
MaxDecodes == 2

\* chunkPool.New.  decodes is a history field: the number of DecodeContent
\* calls made on the payload the chunk holds.
NewChunk ==
    [x |-> 0, y |-> 0, w |-> 0, h |-> 0,
     isDecoded |-> FALSE,
     encoding |-> EncodingCSV, compression |-> CompressionNone,
     raw |-> NoContent, data |-> <<>>, tiles |-> NoTiles, decodes |-> 0]

\* Chunk.Flush
ChunkFlush(c) == [c EXCEPT !.tiles = NoTiles]

\* sync.Pool.Put: the pool keeps the object, or drops it (a sync.Pool may
\* drop any object it holds; the model drops what exceeds MaxPool)
PoolPut(pool, c) ==
    IF BagCardinality(pool) < MaxPool THEN pool (+) SetToBag({c}) ELSE pool

RECURSIVE PoolPutAll(_, _)
PoolPutAll(pool, cs) ==
    IF cs = <<>> THEN pool ELSE PoolPutAll(PoolPut(pool, Head(cs)), Tail(cs))

\* Layer.Flush: every chunk of the grid is flushed and put back; the grid is
\* cleared
LayerFlushPuts(layer) == [k \in 1..Len(layer.items) |-> ChunkFlush(layer.items[k].chunk)]

\* Map.flush: what it leaves of the map, and the two pools after it
RECURSIVE flushPuts(_)
flushPuts(layers) ==
    IF layers = <<>> THEN <<>> ELSE LayerFlushPuts(Head(layers)) \o flushPuts(Tail(layers))

\* a variant of MapFlushed that lets go of the document too
MapFlushedDropsTmx(mp) ==
    [mp EXCEPT !.layers = <<>>, !.cachedData = <<>>, !.cachedPositions = <<>>,
               !.Tmx = NilTmx]

MapFlushed(mp) ==
    [mp EXCEPT !.layers = <<>>, !.cachedData = <<>>, !.cachedPositions = <<>>]

ChunkPoolFlushed(mp, pool) == PoolPutAll(pool, flushPuts(mp.layers))

LayerPoolFlushed(mp, n) == Min2(n + Len(mp.layers), MaxPool)

\* the chunks Map.buildLayers sets up for a document, layer by layer: the
\* fields multiChunklayer / singleChunkLayer assign, and the bounds the chunk
\* is inserted with
ChunkPlan(tmx, i) ==
    LET layer == tmx.Layers[i]
        tw == tmx.TileWidth
        th == tmx.TileHeight
    IN  IF IsInfinite(tmx)
        THEN [k \in 1..Len(layer.Data.Chunks) |->
                LET c == layer.Data.Chunks[k]
                IN  [raw |-> c.Content, x |-> c.X, y |-> c.Y, w |-> c.Width, h |-> c.Height,
                     bounds |-> <<Mul32(c.X, tw), Mul32(c.Y, th),
                                  Mul32(Add32(c.X, c.Width), tw),
                                  Mul32(Add32(c.Y, c.Height), th)>>]]
        ELSE << [raw |-> layer.Data.Content, x |-> 0, y |-> 0,
                 w |-> layer.Width, h |-> layer.Height,
                 bounds |-> <<0, 0, Mul32(layer.Width, tw), Mul32(layer.Height, th)>>] >>

\* multiChunklayer reads Chunks[0] before anything else: on a layer without
\* chunks the index is out of range and the goroutine panics.  The layers
\* before the first such layer are built by then.
PanicIndex == "panic: index out of range"

NoChunkLayers(tmx) ==
    IF IsInfinite(tmx)
    THEN {i \in 1..Len(tmx.Layers) : Len(tmx.Layers[i].Data.Chunks) = 0}
    ELSE {}

MapPanics(tmx) == NoChunkLayers(tmx) # {}

\* the document cut before its first layer without chunks
BuiltBeforePanic(tmx) ==
    [tmx EXCEPT !.Layers =
        SubSeq(tmx.Layers, 1,
               (CHOOSE i \in NoChunkLayers(tmx) :
                    \A j \in NoChunkLayers(tmx) : i <= j) - 1)]

\* the cell size the layer's grid is resized to
GridSize(tmx, i) ==
    IF IsInfinite(tmx)
    THEN <<Mul32(tmx.Layers[i].Data.Chunks[1].Width, tmx.TileWidth),
           Mul32(tmx.Layers[i].Data.Chunks[1].Height, tmx.TileHeight)>>
    ELSE <<Mul32(tmx.Layers[i].Width, tmx.TileWidth),
           Mul32(tmx.Layers[i].Height, tmx.TileHeight)>>

\* the chunk a plan entry becomes when it is written into the chunk `got`
\* that chunkPool.Get returned
SetUpChunk(got, plan) ==
    [got EXCEPT !.raw = plan.raw, !.x = plan.x, !.y = plan.y,
                !.w = plan.w, !.h = plan.h, !.decodes = 0]

AllPlans(tmx) == Concat([i \in 1..Len(tmx.Layers) |-> ChunkPlan(tmx, i)])

\* chunkPool.Get, once per planned chunk: picks[k] says what the k-th Get
\* returns, <<"new", NewChunk>> (the pool's New) or <<"pool", c>> for a chunk
\* c the pool holds at that moment
PickSet(pool) == {<<"new", NewChunk>>} \cup {<<"pool", c>> : c \in BagToSet(pool)}

RECURSIVE PicksOk(_, _)
PicksOk(pool, picks) ==
    IF picks = <<>>
    THEN TRUE
    ELSE IF Head(picks)[1] = "new"
    THEN PicksOk(pool, Tail(picks))
    ELSE /\ BagIn(Head(picks)[2], pool)
         /\ PicksOk(pool (-) SetToBag({Head(picks)[2]}), Tail(picks))

RECURSIVE PoolAfter(_, _)
PoolAfter(pool, picks) ==
    IF picks = <<>>
    THEN pool
    ELSE PoolAfter(IF Head(picks)[1] = "pool"
                   THEN pool (-) SetToBag({Head(picks)[2]}) ELSE pool, Tail(picks))

\* the layers buildLayers appends, given the chunks that Get returned
buildLayers(tmx, picks) ==
    LET start(i) == Len(Concat([j \in 1..(i - 1) |-> ChunkPlan(tmx, j)]))
    IN  [i \in 1..Len(tmx.Layers) |->
           [w |-> GridSize(tmx, i)[1], h |-> GridSize(tmx, i)[2],
            items |-> [k \in 1..Len(ChunkPlan(tmx, i)) |->
                         [chunk |-> SetUpChunk(picks[start(i) + k][2], ChunkPlan(tmx, i)[k]),
                          bounds |-> ChunkPlan(tmx, i)[k].bounds]]]]

NewMap ==
    [Tmx |-> NilTmx,
     layers |-> <<>>,
     frame |-> <<0, 0, 0, 0>>,
     cachedRegion |-> ZeroRegion,
     cachedData |-> <<>>,
     cachedPositions |-> <<>>]

\* Map.SetTmx: the map after the call and the error returned; picks are the
\* chunks chunkPool.Get returns to buildLayers
MapSetTmxErr(tmx) ==
    IF tmx = NilTmx
    THEN ErrInvalidTmxData
    ELSE IF Len(Docs[tmx].Layers) = 0 THEN ErrInvalidTmxData ELSE ""

MapSetTmx(mp, tmx, picks) ==
    IF MapSetTmxErr(tmx) # ""
    THEN [m |-> mp, err |-> MapSetTmxErr(tmx)]
    ELSE IF MapPanics(Docs[tmx])
    THEN [m |-> [MapFlushed(mp) EXCEPT
                    !.Tmx = tmx,
                    !.layers = buildLayers(BuiltBeforePanic(Docs[tmx]), picks)],
          err |-> PanicIndex]
    ELSE [m |-> [MapFlushed(mp) EXCEPT !.Tmx = tmx,
                                       !.layers = buildLayers(Docs[tmx], picks)],
          err |-> ""]

(***************************************************************************)
(* src/unnamed/part_001 : GetTileData, Map.getTileFromChunk,               *)
(* Map.updateCache, Map.computeTileRegion, Map.BufferFrame, Map.Itr        *)
(***************************************************************************)
DataInTileset(g, ts, x, y) ==
    IF ts.tsIdx = -1
    THEN [found |-> FALSE, tile |-> ZeroTile]
    ELSE [found |-> TRUE,
          tile |-> [TsIdx |-> ts.tsIdx, TileID |-> ts.tileID,
                    FlipFlag |-> g.flags, X |-> x, Y |-> y]]

DataOfGID(g, tmx, x, y) ==
    IF g.tileID = 0
    THEN [found |-> FALSE, tile |-> ZeroTile]
    ELSE DataInTileset(g, TilesetByGID(tmx, g.tileID), x, y)

GetTileData(gid, tmx, x, y) == DataOfGID(DecodeGID(gid), tmx, x, y)

\* hash.EncodeGridKey(localx, localy): a key of the pair
EncodeGridKey(x, y) == <<x, y>>

\* the chunk after the decode at the head of getTileFromChunk succeeded
ChunkWithData(chunk, dec) ==
    IF dec.err THEN chunk ELSE [chunk EXCEPT !.data = dec.data, !.isDecoded = TRUE]

\* the lazy decode: the chunk as it leaves it; the decode failed when the chunk
\* is still not decoded
ChunkDecoded(chunk) ==
    IF chunk.isDecoded
    THEN chunk
    ELSE ChunkWithData([chunk EXCEPT !.decodes = Min2(@ + 1, MaxDecodes)],
                       DecodeContent(chunk.raw, chunk.encoding, chunk.compression))

WithChunk(r, chunk) == [found |-> r.found, tile |-> r.tile, chunk |-> chunk]

ChunkNotFound(chunk) == [found |-> FALSE, tile |-> ZeroTile, chunk |-> chunk]

\* getTileFromChunk from the memo lookup on, in local coordinates
chunkLocalTile(tmx, chunk, localx, localy, i) ==
    IF EncodeGridKey(localx, localy) \in DOMAIN chunk.tiles
    THEN [found |-> TRUE, tile |-> chunk.tiles[EncodeGridKey(localx, localy)],
          chunk |-> chunk]
    ELSE IF i < 0 \/ i >= Len(chunk.data)
    THEN ChunkNotFound(chunk)
    ELSE WithChunk(GetTileData(chunk.data[i + 1], tmx,
                               Mul32(localx, tmx.TileWidth),
                               Mul32(localy, tmx.TileHeight)),
                   chunk)

\* getTileFromChunk after the lazy decode left the chunk as d
chunkDecodedTile(tmx, d, x, y) ==
    IF ~d.isDecoded
    THEN ChunkNotFound(d)
    ELSE chunkLocalTile(tmx, d, x - d.x, y - d.y,
                        Add32(Mul32(y - d.y, d.w), x - d.x))

\* found, the tile, and the chunk as the lookup leaves it
getTileFromChunk(tmx, chunk, x, y) ==
    IF x < chunk.x \/ x >= chunk.x + chunk.w \/ y < chunk.y \/ y >= chunk.y + chunk.h
    THEN ChunkNotFound(chunk)
    ELSE chunkDecodedTile(tmx, ChunkDecoded(chunk), x, y)

\* Grid.Query: the indices of the items whose bounds overlap the rectangle
GridQuery(layer, rect) ==
    SelectSeq([k \in 1..Len(layer.items) |-> k],
              LAMBDA k : /\ layer.items[k].bounds[1] < rect[3]
                         /\ layer.items[k].bounds[3] > rect[1]
                         /\ layer.items[k].bounds[2] < rect[4]
                         /\ layer.items[k].bounds[4] > rect[2])

\* the cells of [sX, eX) x [sY, eY) in the order of the loops: x outer, y inner
ClipCells(sX, sY, eX, eY) ==
    IF eX <= sX \/ eY <= sY
    THEN <<>>
    ELSE [k \in 1..((eX - sX) * (eY - sY)) |->
            <<sX + ((k - 1) \div (eY - sY)), sY + ((k - 1) % (eY - sY))>>]

\* the part of the region a chunk covers
ChunkCells(region, c) ==
    ClipCells(Max2(region.MinX, c.x), Max2(region.MinY, c.y),
              Min2(region.MaxX, c.x + c.w), Min2(region.MaxY, c.y + c.h))

\* Map.updateCache works on the cache as it is being filled: c is the record
\* of the layers (their chunks), the tile buffer and the offsets.  One found
\* tile is appended; the chunk is item n of layer i.
MapCacheAppend(c, i, n, r) ==
    [c EXCEPT !.layers[i].items[n].chunk = r.chunk,
              !.data = IF r.found THEN Append(@, r.tile) ELSE @]

\* the loops over x and y inside one chunk, from cell k on
RECURSIVE mapScanCells(_, _, _, _, _, _)
mapScanCells(tmx, c, i, n, cells, k) ==
    IF k > Len(cells)
    THEN c
    ELSE mapScanCells(tmx,
                      MapCacheAppend(c, i, n,
                          getTileFromChunk(tmx, c.layers[i].items[n].chunk,
                                           cells[k][1], cells[k][2])),
                      i, n, cells, k + 1)

\* the loop over the chunks the grid returned, from the j-th on
RECURSIVE mapChunksLoop(_, _, _, _, _, _)
mapChunksLoop(tmx, region, c, i, hits, j) ==
    IF j > Len(hits)
    THEN c
    ELSE mapChunksLoop(tmx, region,
                       mapScanCells(tmx, c, i, hits[j],
                                    ChunkCells(region, c.layers[i].items[hits[j]].chunk), 1),
                       i, hits, j + 1)

\* the rectangle updateCache queries the grid with
QueryRect(tmx, region) ==
    <<region.MinX * tmx.TileWidth, region.MinY * tmx.TileHeight,
      region.MaxX * tmx.TileWidth, region.MaxY * tmx.TileHeight>>

\* the body of the loop over the layers: the start offset, then the tiles of
\* a visible layer
mapScanLayer(tmx, region, c, i) ==
    IF IsVisible(tmx.Layers[i])
    THEN mapChunksLoop(tmx, region, [c EXCEPT !.positions = Append(@, Len(c.data))],
                       i, GridQuery(c.layers[i], QueryRect(tmx, region)), 1)
    ELSE [c EXCEPT !.positions = Append(@, Len(c.data))]

RECURSIVE mapLayersLoop(_, _, _, _)
mapLayersLoop(tmx, region, c, i) ==
    IF i > Len(c.layers)
    THEN c
    ELSE mapLayersLoop(tmx, region, mapScanLayer(tmx, region, c, i), i + 1)

\* the fields updateCache has written when it returns
MapCacheFilled(mp, region, c) ==
    [mp EXCEPT !.cachedRegion = region,
               !.cachedData = c.data,
               !.cachedPositions = Append(c.positions, Len(c.data)),
               !.layers = c.layers]

MapUpdateCache(mp, region) ==
    MapCacheFilled(mp, region,
                   mapLayersLoop(Docs[mp.Tmx], region,
                                 [layers |-> mp.layers, data |-> <<>>, positions |-> <<>>], 1))

computeTileRegion(mp) ==
    calculateQueryRegion(mp.frame, Docs[mp.Tmx].TileWidth, Docs[mp.Tmx].TileHeight)

BufferFrameRegion(mp, region) ==
    IF RegionEqual(region, mp.cachedRegion)
    THEN [m |-> mp, err |-> "", path |-> "hit"]
    ELSE [m |-> MapUpdateCache(mp, region), err |-> "", path |-> "rebuild"]

\* Map.BufferFrame: the map after the call, the error returned, the path taken
BufferFrame(mp) ==
    IF mp.Tmx = NilTmx
    THEN [m |-> mp, err |-> ErrNoTmxData, path |-> "none"]
    ELSE IF Len(mp.layers) = 0
    THEN [m |-> mp, err |-> ErrInvalidTmxData, path |-> "none"]
    ELSE BufferFrameRegion(mp, computeTileRegion(mp))

\* Map.Itr: a view of the two buffers as they are at the call
MapItr(mp) == [tiles |-> mp.cachedData, positions |-> mp.cachedPositions, index |-> 0]

(***************************************************************************)
(* The operations of tilemap.Map as actions.  itr is the iterator the      *)
(* client holds: it takes one with Itr after BufferFrame and lets go of it *)
(* when it calls anything else on the map.                                 *)
(***************************************************************************)
\* the goroutine that drives the Map has panicked
Aborted == ret.err = PanicIndex

\* Map.GetTileset
MapGetTileset(mp, index) == TilesetOf(mp.Tmx, index)

MpGetTileset(index) ==
    /\ target = "Map"
    /\ ~Aborted
    /\ ret' = RetTileset(MapGetTileset(m, index))
    /\ itr' = EmptyIterator
    /\ UNCHANGED <<concVars, objVars, calc, target, tm, hist, decodeFailed, mapVars>>

BufferFrameReturned(r) ==
    /\ m' = r.m
    /\ ret' = Ret("BufferFrame", r.err, r.path)
    /\ hist' = HistAfterQuery(r.err, r.path)
    /\ UNCHANGED decodeFailed

\* Frame().Set(frame) followed by BufferFrame().  Only BufferFrame reads the
\* frame, so a Set takes effect at the next BufferFrame wherever it is made;
\* frame = m.frame is a BufferFrame with no Set before it.
MpBufferFrame(frame) ==
    /\ target = "Map"
    /\ ~Aborted
    /\ BufferFrameReturned(BufferFrame([m EXCEPT !.frame = frame]))
    /\ itr' = EmptyIterator
    /\ UNCHANGED <<concVars, objVars, calc, target, tm, chunkPool, layerPool, swaps>>

MpItr ==
    /\ target = "Map"
    /\ ~Aborted
    /\ ret.op = "BufferFrame"
    /\ itr' = MapItr(m)
    /\ ret' = Ret("Itr", "", "none")
    /\ UNCHANGED <<concVars, objVars, calc, target, tm, hist, decodeFailed, mapVars>>

MpNext ==
    /\ target = "Map"
    /\ ~Aborted
    /\ ret.op \in {"Itr", "Next"}
    /\ NextReturned(IterNext(itr))
    /\ UNCHANGED <<concVars, objVars, calc, target, tm, hist, decodeFailed, mapVars>>

MpFlush ==
    /\ target = "Map"
    /\ ~Aborted
    /\ m' = MapFlushed(m)
    /\ chunkPool' = ChunkPoolFlushed(m, chunkPool)
    /\ layerPool' = LayerPoolFlushed(m, layerPool)
    /\ ret' = Ret("Flush", "", "none")
    /\ itr' = EmptyIterator
    /\ UNCHANGED <<concVars, objVars, calc, target, tm, hist, decodeFailed, swaps>>

\* SetTmx with a document it rejects: nothing is touched
MpSetTmxRejected(tmx) ==
    /\ target = "Map"
    /\ ~Aborted
    /\ MapSetTmxErr(tmx) # ""
    /\ ret' = Ret("SetTmx", MapSetTmxErr(tmx), "none")
    /\ itr' = EmptyIterator
    /\ UNCHANGED <<concVars, objVars, calc, target, tm, hist, decodeFailed, mapVars>>

\* SetTmx with a document it accepts: flush, then buildLayers takes its
\* layers and chunks from the pools
MpSetTmxAccepted(tmx) ==
    /\ target = "Map"
    /\ ~Aborted
    /\ MapSetTmxErr(tmx) = ""
    /\ ~MapPanics(Docs[tmx])
    /\ swaps < MaxSwaps
    /\ swaps' = swaps + 1
    /\ LET pool == ChunkPoolFlushed(m, chunkPool)
           lays == LayerPoolFlushed(m, layerPool)
           n == Len(AllPlans(Docs[tmx]))
       IN  /\ \E picks \in [1..n -> PickSet(pool)] :
                /\ PicksOk(pool, picks)
                /\ m' = MapSetTmx(m, tmx, picks).m
                /\ chunkPool' = PoolAfter(pool, picks)
           /\ \E taken \in 0..Min2(lays, Len(Docs[tmx].Layers)) :
                layerPool' = lays - taken
    /\ ret' = Ret("SetTmx", "", "none")
    /\ hist' = HistAfterSetTmx("")
    /\ UNCHANGED decodeFailed
    /\ itr' = EmptyIterator
    /\ UNCHANGED <<concVars, objVars, calc, target, tm>>

\* SetTmx with a document that has a layer without chunks: flush, the
\* assignment of Tmx, the layers before that layer, then the panic.  Nothing
\* runs after it.
MpSetTmxPanics(tmx) ==
    /\ target = "Map"
    /\ ~Aborted
    /\ MapSetTmxErr(tmx) = ""
    /\ MapPanics(Docs[tmx])
    /\ LET pool == ChunkPoolFlushed(m, chunkPool)
           lays == LayerPoolFlushed(m, layerPool)
           n == Len(AllPlans(BuiltBeforePanic(Docs[tmx])))
       IN  /\ \E picks \in [1..n -> PickSet(pool)] :
                /\ PicksOk(pool, picks)
                /\ m' = MapSetTmx(m, tmx, picks).m
                /\ chunkPool' = PoolAfter(pool, picks)
           /\ \E taken \in 0..Min2(lays, Len(BuiltBeforePanic(Docs[tmx]).Layers)) :
                layerPool' = lays - taken
    /\ ret' = Ret("SetTmx", PanicIndex, "none")
    /\ itr' = EmptyIterator
    /\ UNCHANGED <<concVars, objVars, calc, target, tm, hist, decodeFailed, swaps>>

(***************************************************************************)
(* src/unnamed/part_000 : TestConcurrentAccess.  Goroutines share one Map  *)
(* and each runs Frame().Set(f); BufferFrame(); Itr(); Next() until nil,   *)
(* with no synchronisation.  A step of a goroutine is one statement of     *)
(* part_001 (one iteration for a loop); statements of different goroutines *)
(* interleave in any order.                                                *)
(*                                                                         *)
(* A slice is the header Go keeps: its backing array (an index into heap,  *)
(* 0 for a nil slice) and its length; its capacity is the length of the    *)
(* backing array.  Map.cachedData and Map.cachedPositions are such         *)
(* headers, and the Iterator holds copies of the headers, not of the       *)
(* arrays.                                                                 *)
(***************************************************************************)
MaxThreads == 2

ThreadIds == 1..MaxThreads

NilSlice == [arr |-> 0, len |-> 0]

Cap(h, s) == IF s.arr = 0 THEN 0 ELSE Len(h[s.arr])

\* make([]T, 0, size): a new backing array of zero values
MakeArray(size, zero) == [k \in 1..size |-> zero]

\* the capacity append gives the new backing array of a full slice
GrowCap(cap) == IF cap = 0 THEN 1 ELSE 2 * cap

\* append(s, v) on a full slice: a new backing array holding the elements of
\* s, then v
AppendGrown(h, s, v, zero) ==
    [k \in 1..GrowCap(Cap(h, s)) |->
        IF k <= s.len THEN h[s.arr][k] ELSE IF k = s.len + 1 THEN v ELSE zero]

\* append(s, v): the heap and the header after it
SliceAppend(h, s, v, zero) ==
    IF s.len < Cap(h, s)
    THEN [heap |-> [h EXCEPT ![s.arr][s.len + 1] = v],
          slice |-> [s EXCEPT !.len = @ + 1]]
    ELSE [heap |-> Append(h, AppendGrown(h, s, v, zero)),
          slice |-> [arr |-> Len(h) + 1, len |-> s.len + 1]]

\* the fields of a Map that goroutines share, its two buffers as headers
SharedMap(mp) ==
    [Tmx |-> mp.Tmx, layers |-> mp.layers, frame |-> mp.frame,
     cachedRegion |-> mp.cachedRegion,
     cachedData |-> NilSlice, cachedPositions |-> NilSlice]

\* m := NewMap(); m.SetTmx(tmx), every chunk coming from the pool's New
FreshMap(tmx) ==
    MapSetTmx(NewMap, tmx, [k \in 1..Len(AllPlans(Docs[tmx])) |-> <<"new", NewChunk>>]).m

\* the frame every goroutine sets: the first column of the map
ConcFrame == <<0, 0, 1, MaxFrameY>>

\* the documents the shared Map is given
ConcDocs == {1, 2, 3}

\* a goroutine before its first statement
NewThread ==
    [pc |-> "set", region |-> ZeroRegion, i |-> 0, k |-> 0,
     iter |-> [tiles |-> NilSlice, layers |-> NilSlice, index |-> 0],
     out |-> <<>>, panicked |-> FALSE]

\* goroutine t moves to pc; everything outside the shared Map stays
Goto(t, pc) ==
    /\ threads' = [threads EXCEPT ![t].pc = pc]
    /\ UNCHANGED <<objVars, calc, target, seqVars>>

\* m.Frame().Set(f)
ThSetFrame(t) ==
    /\ target = "Threads"
    /\ threads[t].pc = "set"
    /\ cm' = [cm EXCEPT !.frame = ConcFrame]
    /\ Goto(t, "check")
    /\ UNCHANGED heap

\* BufferFrame up to the comparison with the cached region
ThCheckRegion(t, region) ==
    IF RegionEqual(region, cm.cachedRegion)
    THEN threads' = [threads EXCEPT ![t].pc = "itr"]
    ELSE threads' = [threads EXCEPT ![t].pc = "alloc", ![t].region = region]

ThCheck(t) ==
    /\ target = "Threads"
    /\ threads[t].pc = "check"
    /\ IF cm.Tmx = NilTmx \/ Len(cm.layers) = 0
       THEN threads' = [threads EXCEPT ![t].pc = "itr"]
       ELSE ThCheckRegion(t, computeTileRegion(cm))
    /\ UNCHANGED <<objVars, calc, target, seqVars, heap, cm>>

\* size := int(width*height) * len(tm.layers)
BufferSize(region, layers) ==
    Mul32(RegionWidth(region), RegionHeight(region)) * Len(layers)

\* BufferFrame: the capacity check and the make
ThAlloc(t) ==
    /\ target = "Threads"
    /\ threads[t].pc = "alloc"
    /\ IF Cap(heap, cm.cachedData) < BufferSize(threads[t].region, cm.layers)
       THEN /\ heap' = Append(heap, MakeArray(BufferSize(threads[t].region, cm.layers),
                                              ZeroTile))
            /\ cm' = [cm EXCEPT !.cachedData = [arr |-> Len(heap) + 1, len |-> 0]]
       ELSE UNCHANGED <<heap, cm>>
    /\ Goto(t, "region")

\* updateCache: tm.cachedRegion = region
ThWriteRegion(t) ==
    /\ target = "Threads"
    /\ threads[t].pc = "region"
    /\ cm' = [cm EXCEPT !.cachedRegion = threads[t].region]
    /\ Goto(t, "truncData")
    /\ UNCHANGED heap

\* updateCache: tm.cachedData = tm.cachedData[:0]
ThTruncData(t) ==
    /\ target = "Threads"
    /\ threads[t].pc = "truncData"
    /\ cm' = [cm EXCEPT !.cachedData.len = 0]
    /\ Goto(t, "truncPositions")
    /\ UNCHANGED heap

\* updateCache: tm.cachedPositions = tm.cachedPositions[:0], and the loop over
\* the layers begins
ThTruncPositions(t) ==
    /\ target = "Threads"
    /\ threads[t].pc = "truncPositions"
    /\ cm' = [cm EXCEPT !.cachedPositions.len = 0]
    /\ threads' = [threads EXCEPT ![t].pc = "layer", ![t].i = 1]
    /\ UNCHANGED <<objVars, calc, target, seqVars, heap>>

\* what an append leaves of cachedPositions
PositionAppended(a) ==
    /\ heap' = a.heap
    /\ cm' = [cm EXCEPT !.cachedPositions = a.slice]

\* updateCache: the head of the loop over the layers; in the loop, the start
\* offset of layer i; after it, the final offset
ThLayer(t) ==
    /\ target = "Threads"
    /\ threads[t].pc = "layer"
    /\ PositionAppended(SliceAppend(heap, cm.cachedPositions, cm.cachedData.len, 0))
    /\ IF threads[t].i > Len(cm.layers)
       THEN threads' = [threads EXCEPT ![t].pc = "itr"]
       ELSE threads' = [threads EXCEPT ![t].pc = "scan", ![t].k = 1]
    /\ UNCHANGED <<objVars, calc, target, seqVars>>

\* the k-th tile the loops over layer i find is appended to cachedData; the
\* lookups leave the chunks decoded
TileAppended(t, c, a) ==
    /\ heap' = a.heap
    /\ cm' = [cm EXCEPT !.cachedData = a.slice, !.layers = c.layers]
    /\ threads' = [threads EXCEPT ![t].k = @ + 1]

\* one iteration of the loops over layer i, c being what the loops find in it:
\* the next tile, or the end of the layer
ThScanLayer(t, c) ==
    IF threads[t].k > Len(c.data)
    THEN /\ threads' = [threads EXCEPT ![t].pc = "layer", ![t].i = @ + 1]
         /\ cm' = [cm EXCEPT !.layers = c.layers]
         /\ UNCHANGED heap
    ELSE TileAppended(t, c, SliceAppend(heap, cm.cachedData, c.data[threads[t].k],
                                        ZeroTile))

ThScan(t) ==
    /\ target = "Threads"
    /\ threads[t].pc = "scan"
    /\ ThScanLayer(t, mapScanLayer(Docs[cm.Tmx], threads[t].region,
                                   [layers |-> cm.layers, data |-> <<>>,
                                    positions |-> <<>>],
                                   threads[t].i))
    /\ UNCHANGED <<objVars, calc, target, seqVars>>

\* Map.Itr: the iterator takes the two headers as they are
ThItr(t) ==
    /\ target = "Threads"
    /\ threads[t].pc = "itr"
    /\ threads' = [threads EXCEPT ![t].pc = "next",
                                  ![t].iter = [tiles |-> cm.cachedData,
                                               layers |-> cm.cachedPositions,
                                               index |-> 0]]
    /\ UNCHANGED <<objVars, calc, target, seqVars, heap, cm>>

\* it.tiles[start:end] is in range
SliceInRange(h, s, start, end) == 0 <= start /\ start <= end /\ end <= Cap(h, s)

\* the elements of it.tiles[start:end]
SliceElems(h, s, start, end) == [k \in 1..(end - start) |-> h[s.arr][start + k]]

\* Iterator.Next past the index check: the slice expression panics, or yields
\* nil (a slice of a nil slice) and the consumer's loop ends, or yields a slice
ThNextSlice(t, it, start, end) ==
    IF ~SliceInRange(heap, it.tiles, start, end)
    THEN threads' = [threads EXCEPT ![t].pc = "done", ![t].panicked = TRUE]
    ELSE IF it.tiles.arr = 0
    THEN threads' = [threads EXCEPT ![t].pc = "done", ![t].iter.index = @ + 1]
    ELSE threads' = [threads EXCEPT ![t].iter.index = @ + 1,
                                    ![t].out = Append(@, SliceElems(heap, it.tiles,
                                                                    start, end))]

\* one call of Iterator.Next by the consumer's loop
ThNext(t) ==
    /\ target = "Threads"
    /\ threads[t].pc = "next"
    /\ IF threads[t].iter.index >= threads[t].iter.layers.len - 1
       THEN threads' = [threads EXCEPT ![t].pc = "done"]
       ELSE ThNextSlice(t, threads[t].iter,
                        heap[threads[t].iter.layers.arr][threads[t].iter.index + 1],
                        heap[threads[t].iter.layers.arr][threads[t].iter.index + 2])
    /\ UNCHANGED <<objVars, calc, target, seqVars, heap, cm>>

(***************************************************************************)
(* Specifications                                                          *)
(***************************************************************************)
\* calc holds the application of a pure function of the packages: its name,
\* its arguments and what it returned.  A behaviour applies one function once.
NoCalc == [fn |-> "none", in |-> <<>>, out |-> <<>>]

\* no buffer and no object is followed
NoStore == [data |-> NilSlice, positions |-> NilSlice, held |-> <<>>]
NoOwn ==
    [maps |-> <<>>, grid |-> <<>>, chunkPool |-> EmptyBag, layerPool |-> EmptyBag,
     chunks |-> 0, layers |-> 0]

Applied(fn, in, out) ==
    /\ target = "Pure"
    /\ calc = NoCalc
    /\ calc' = [fn |-> fn, in |-> in, out |-> out]
    /\ UNCHANGED <<target, seqVars, concVars, objVars>>

\* func init: two Put(Get()) on each pool; the second Get may hand back the
\* object the first Put stored
InitPools ==
    /\ \E n \in 1..Min2(2, MaxPool) : chunkPool = [c \in {NewChunk} |-> n]
    /\ layerPool \in 1..Min2(2, MaxPool)

InitSeq ==
    /\ tm = NewTilemap
    /\ m = NewMap
    /\ itr = EmptyIterator
    /\ ret = Ret("New", "", "none")
    /\ swaps = 0
    /\ hist = "none"
    /\ decodeFailed = FALSE
    /\ calc = NoCalc
    /\ InitPools

\* a program that drives one engine from one goroutine shares nothing
InitCommon ==
    /\ InitSeq
    /\ heap = <<>>
    /\ cm = SharedMap(NewMap)
    /\ threads = <<>>
    /\ store = NoStore
    /\ own = NoOwn

Init == target = "Tilemap" /\ InitCommon

Next ==
    \/ \E tmx \in TmxRefs : TmSetTmx(tmx)
    \/ TmFlushCache
    \/ \E frame \in Frames : TmGetTiles(frame)
    \/ TmNext
    \/ \E index \in TilesetIdx : TmGetTileset(index)

Spec == Init /\ [][Next]_vars

InitMap == target = "Map" /\ InitCommon

NextMap ==
    \/ \E tmx \in TmxRefs : MpSetTmxRejected(tmx)
    \/ \E tmx \in TmxRefs : MpSetTmxAccepted(tmx)
    \/ \E tmx \in TmxRefs : MpSetTmxPanics(tmx)
    \/ MpFlush
    \/ \E frame \in MapFrames : MpBufferFrame(frame)
    \/ MpItr
    \/ MpNext
    \/ \E index \in TilesetIdx : MpGetTileset(index)

SpecMap == InitMap /\ [][NextMap]_vars

\* a client program drives one of the two engines
InitBoth == target \in {"Tilemap", "Map"} /\ InitCommon

NextBoth ==
    \/ \E tmx \in TmxRefs : TmSetTmx(tmx)
    \/ TmFlushCache
    \/ \E frame \in Frames : TmGetTiles(frame)
    \/ TmNext
    \/ \E index \in TilesetIdx : TmGetTileset(index)
    \/ \E tmx \in TmxRefs : MpSetTmxRejected(tmx)
    \/ \E tmx \in TmxRefs : MpSetTmxAccepted(tmx)
    \/ \E tmx \in TmxRefs : MpSetTmxPanics(tmx)
    \/ MpFlush
    \/ \E frame \in MapFrames : MpBufferFrame(frame)
    \/ MpItr
    \/ MpNext
    \/ \E index \in TilesetIdx : MpGetTileset(index)

SpecBoth == InitBoth /\ [][NextBoth]_vars

\* TestConcurrentAccess: the Map holds a document, nothing is buffered yet,
\* and the goroutines are about to start
InitConc ==
    /\ target = "Threads"
    /\ InitSeq
    /\ heap = <<>>
    /\ \E tmx \in ConcDocs : cm = SharedMap(FreshMap(tmx))
    /\ threads = [t \in ThreadIds |-> NewThread]
    /\ store = NoStore
    /\ own = NoOwn

NextConc ==
    \E t \in ThreadIds :
        \/ ThSetFrame(t)
        \/ ThCheck(t)
        \/ ThAlloc(t)
        \/ ThWriteRegion(t)
        \/ ThTruncData(t)
        \/ ThTruncPositions(t)
        \/ ThLayer(t)
        \/ ThScan(t)
        \/ ThItr(t)
        \/ ThNext(t)

SpecConc == InitConc /\ [][NextConc]_vars

(***************************************************************************)
(* The pure functions of the packages, applied to arguments drawn from     *)
(* bounded sets.                                                           *)
(***************************************************************************)
\* cell values: every combination of the bits 28..31 over a few values of
\* the bits 0..27
MaxCellLow == 5
CellLows == {0, 1, MaxCellLow, RotateHexFlag - 1}
Cells == (0..15) \X CellLows

ApplyDecodeGID(gid) == Applied("DecodeGID", gid, DecodeGID(gid))

\* tileset lists sorted ascending by FirstGID, of up to MaxTilesets tilesets
\* with FirstGID up to MaxFirstGID, and the ids looked up in them
MaxTilesets == 3
MaxFirstGID == 4
SortedFirstGIDs ==
    UNION {{f \in [1..n -> 1..MaxFirstGID] :
               \A i \in 1..(n - 1) : f[i] <= f[i + 1]} : n \in 0..MaxTilesets}
LookupGIDs == 0..(MaxFirstGID + 1)

\* a document that has the tilesets of the list, with tiles of 2 x 1 pixels
WithTilesets(firsts) ==
    [Infinite |-> FALSE, Width |-> 1, Height |-> 1, TileWidth |-> 2, TileHeight |-> 1,
     Tilesets |-> [i \in 1..Len(firsts) |-> [FirstGID |-> firsts[i], Source |-> "t.tsx"]],
     Layers |-> << >>]

\* frames and tile sizes for the region functions: coordinates on both sides
\* of zero, on and off the tile grid
MaxQueryCoord == 260
QueryXs == {-17, -16, 0, 5, 256, MaxQueryCoord}
QueryYs == {-1, 0, 5, 256, MaxQueryCoord}
QueryFrames == QueryXs \X QueryYs \X QueryXs \X QueryYs
QueryTileSizes == {1, 3, 16}

ApplyCalculateQueryRegion(frame, tileWidth, tileHeight) ==
    Applied("calculateQueryRegion", <<frame, tileWidth, tileHeight>>,
            calculateQueryRegion(frame, tileWidth, tileHeight))

\* Map.computeTileRegion on a Map that holds the document and the frame
ApplyComputeTileRegion(frame, tmx) ==
    Applied("computeTileRegion",
            <<frame, Docs[tmx].TileWidth, Docs[tmx].TileHeight>>,
            computeTileRegion([NewMap EXCEPT !.Tmx = tmx, !.frame = frame]))

\* what a lookup returned: whether a tile was found, and the tile's fields
Looked(t) ==
    [found |-> t.found, X |-> t.tile.X, Y |-> t.tile.Y,
     TsIdx |-> t.tile.TsIdx, TileID |-> t.tile.TileID, FlipFlag |-> t.tile.FlipFlag]

\* TilesetByGID(tmx, gid), and getTile on the cell value gid at tile (1, 1)
ApplyTilesetByGID(firsts, gid) ==
    Applied("TilesetByGID", <<firsts, gid>>,
            [ts |-> TilesetByGID(WithTilesets(firsts), gid),
             tile |-> Looked(getTile(WithTilesets(firsts), 1, 1, <<0, gid>>))])

\* CSV payloads: up to MaxCsvTokens tokens, each written <<kind, neg, hi, lo>>
MaxCsvTokens == 3
CsvTokens ==
    {<<"empty", FALSE, 0, 0>>, <<"bad", FALSE, 0, 0>>, <<"huge", FALSE, 0, 0>>,
     <<"num", FALSE, 0, 0>>, <<"num", FALSE, 0, MaxCellLow>>,
     <<"num", FALSE, 8, 0>>, <<"num", FALSE, 15, RotateHexFlag - 1>>,
     <<"num", FALSE, 16, 0>>, <<"num", TRUE, 0, 1>>}
CsvTexts == UNION {[1..n -> CsvTokens] : n \in 0..MaxCsvTokens}
Token(t) == [kind |-> t[1], neg |-> t[2], hi |-> t[3], lo |-> t[4]]

ApplyDecodeCSV(text) ==
    LET r == DecodeContent(Csv([k \in 1..Len(text) |-> Token(text[k])]),
                           EncodingCSV, CompressionNone)
    IN  Applied("decodeCSV", text, <<r.err, r.data>>)

\* an infinite document whose two chunks cover the same cells (0..3, 0); the
\* first one starts with the cell value `first` and is one cell short
DocOverlap(first) ==
    [Infinite |-> TRUE, Width |-> 4, Height |-> 1, TileWidth |-> 2, TileHeight |-> 1,
     Tilesets |-> << [FirstGID |-> 2, Source |-> "o.tsx"] >>,
     Layers |-> <<
        TmxLayer(TRUE, 4, 1, NoContent,
                 << TmxChunk(0, 0, 4, 1,
                             Csv(<< Num(first[1], first[2]), Num(0, 0), Num(0, 3) >>)),
                    TmxChunk(0, 0, 4, 1,
                             Csv(<< Num(0, 5), Num(0, 6), Num(0, 7), Num(0, 8) >>)) >>)
     >>]
OverlapFirsts == {<<0, 1>>, <<0, 2>>, <<8, 0>>}
OverlapXs == -1..4

\* getChunkTileAt on the freshly decoded layer of DocOverlap(first)
ApplyGetChunkTileAt(first, x) ==
    Applied("getChunkTileAt", <<first, x>>,
            Looked(getChunkTileAt(DocOverlap(first),
                                  decodeTilemapLayers(DocOverlap(first)).layers[1],
                                  x, 0, 1)))

TileTuple(t) == <<t.X, t.Y, t.TileID, t.TsIdx, t.FlipFlag>>

\* the encoding and compression each chunk of the map carries
ChunkEncodings(mp) ==
    [i \in 1..Len(mp.layers) |->
        [n \in 1..Len(mp.layers[i].items) |->
            <<mp.layers[i].items[n].chunk.encoding,
              mp.layers[i].items[n].chunk.compression>>]]

\* the tiles BufferFrame leaves in the cache
BufferedTiles(mp) == [k \in 1..Len(mp.cachedData) |-> TileTuple(mp.cachedData[k])]

\* NewMap, SetTmx(tmx), Frame().Set(frame), BufferFrame()
ApplyMapSetTmx(tmx, frame) ==
    Applied("Map.SetTmx", <<tmx, frame>>,
            <<ChunkEncodings(FreshMap(tmx)),
              BufferedTiles(BufferFrame([FreshMap(tmx) EXCEPT !.frame = frame]).m)>>)

InitPure == target = "Pure" /\ InitCommon

NextPure ==
    \/ calc = NoCalc /\ \E gid \in Cells : ApplyDecodeGID(gid)
    \/ calc = NoCalc /\ \E firsts \in SortedFirstGIDs, gid \in LookupGIDs :
                            ApplyTilesetByGID(firsts, gid)
    \/ calc = NoCalc /\ \E frame \in QueryFrames, tileWidth \in QueryTileSizes,
                            tileHeight \in QueryTileSizes :
                            ApplyCalculateQueryRegion(frame, tileWidth, tileHeight)
    \/ calc = NoCalc /\ \E frame \in QueryFrames, tmx \in {1, 3} :
                            ApplyComputeTileRegion(frame, tmx)
    \/ calc = NoCalc /\ \E text \in CsvTexts : ApplyDecodeCSV(text)
    \/ calc = NoCalc /\ \E first \in OverlapFirsts, x \in OverlapXs :
                            ApplyGetChunkTileAt(first, x)
    \/ calc = NoCalc /\ \E tmx \in EncodedRefs, frame \in Frames : ApplyMapSetTmx(tmx, frame)

SpecPure == InitPure /\ [][NextPure]_vars

(***************************************************************************)
(* The buffers of a Tilemap as Go slices (src/tilemap.go).  tm holds what  *)
(* the buffers contain; store holds where: cachedTileData and              *)
(* cachedPositions as headers over heap, a tile being written as the tuple *)
(* of its fields.  An iterator is the pair of headers buildIterator        *)
(* returns, kept with the slices it yielded when it was returned.  Next    *)
(* only reads, so reading an iterator at any time is reading what its      *)
(* headers point at.                                                       *)
(***************************************************************************)
\* NewTilemap: make([]TileData, 0, 64) and make([]int, 0, 8)
InitialTileCap == 64
InitialPositionCap == 8

ZeroTuple == TileTuple(ZeroTile)

NewHeap == << MakeArray(InitialTileCap, ZeroTuple), MakeArray(InitialPositionCap, 0) >>

NewStore ==
    [data |-> [arr |-> 1, len |-> 0], positions |-> [arr |-> 2, len |-> 0], held |-> <<>>]

\* the iterators a client keeps at most
MaxHeld == 3

\* the documents and frames of a client that keeps its iterators
StoreRefs == {NilTmx, 1, 5, WideRef}
StoreFrames ==
    {<<0, 0, 0, 0>>, <<0, 0, 1, 1>>, <<0, 0, 2, 2>>,
     <<0, 0, DocWide.Width - 1, DocWide.Height>>, <<0, 0, DocWide.Width, DocWide.Height>>}

\* s[:0]
Truncated(s) == [s EXCEPT !.len = 0]

\* the capacities append runs through to hold n values, from capacity cap on
RECURSIVE GrowTo(_, _)
GrowTo(cap, n) == IF cap >= n THEN <<>> ELSE <<GrowCap(cap)>> \o GrowTo(GrowCap(cap), n)

\* an array of capacity cap with the first values of vals, as many as fit
Filled(cap, vals, zero) ==
    [k \in 1..cap |-> IF k <= Len(vals) THEN vals[k] ELSE zero]

\* the array of s with the first values of vals written over its elements
Overwritten(h, s, vals) ==
    IF s.arr = 0
    THEN h
    ELSE [h EXCEPT ![s.arr] = [k \in 1..Len(@) |-> IF k <= Len(vals) THEN vals[k] ELSE @[k]]]

\* s = s[:0], then append(s, v) for every v of vals in turn: the values go
\* into the array of s while they fit; each time the array is full append
\* moves to a new one (SliceAppend), which leaves every array but the last
\* full
Refilled(h, s, vals, zero) ==
    [heap |-> Overwritten(h, s, vals)
                 \o [j \in 1..Len(GrowTo(Cap(h, s), Len(vals))) |->
                        Filled(GrowTo(Cap(h, s), Len(vals))[j], vals, zero)],
     slice |-> [arr |-> IF Len(vals) <= Cap(h, s)
                        THEN s.arr
                        ELSE Len(h) + Len(GrowTo(Cap(h, s), Len(vals))),
                len |-> Len(vals)]]

\* the buffers b = [heap, data, positions] with one of them written anew
StoreWithData(b, a) == [b EXCEPT !.heap = a.heap, !.data = a.slice]
StoreWithPositions(b, a) == [b EXCEPT !.heap = a.heap, !.positions = a.slice]

\* Tilemap.FlushCache on the buffers
StoreFlushed(b) == [b EXCEPT !.data = Truncated(@), !.positions = Truncated(@)]

\* Tilemap.updateCache on the buffers: both truncated, then the tiles and the
\* offsets of the rebuilt cache u appended
StoreDataFilled(b, u) ==
    StoreWithData(b, Refilled(b.heap, b.data,
                              [k \in 1..Len(u.cachedTileData) |->
                                  TileTuple(u.cachedTileData[k])],
                              ZeroTuple))

StorePositionsFilled(b, u) ==
    StoreWithPositions(b, Refilled(b.heap, b.positions, u.cachedPositions, 0))

StoreUpdateCache(b, u) == StorePositionsFilled(StoreDataFilled(b, u), u)

\* int(queryRegion.Width() * queryRegion.Height() * int32(len(tm.decodedLayers)))
TileBufferSize(region, n) == Mul32(Mul32(RegionWidth(region), RegionHeight(region)), n)

\* GetTiles, the full rebuild: a new buffer when the capacity is too small
StoreAlloc(b, size) ==
    IF Cap(b.heap, b.data) < size
    THEN [b EXCEPT !.heap = Append(@, MakeArray(size, ZeroTuple)),
                   !.data = [arr |-> Len(b.heap) + 1, len |-> 0]]
    ELSE b

\* the buffers after a GetTiles that took the path and left the cache as u
StoreQueried(b, path, u) ==
    IF path = "hit"
    THEN b
    ELSE IF path = "compatible"
    THEN StoreUpdateCache(b, u)
    ELSE StoreUpdateCache(StoreAlloc(b, TileBufferSize(u.cachedTileRegion,
                                                       Len(u.decodedLayers))), u)

\* a variant of StoredIterator that hands out the buffers themselves
StoredIteratorShared(b) ==
    [heap |-> b.heap, tiles |-> b.data, positions |-> b.positions]

\* Tilemap.buildIterator: two new arrays, the buffers copied into them
StoredIterator(b) ==
    [heap |-> b.heap \o << SliceElems(b.heap, b.data, 0, b.data.len),
                            SliceElems(b.heap, b.positions, 0, b.positions.len) >>,
     tiles |-> [arr |-> Len(b.heap) + 1, len |-> b.data.len],
     positions |-> [arr |-> Len(b.heap) + 2, len |-> b.positions.len]]

\* the slices an iterator yields, read through its headers
HeldSlices(h, it) ==
    Drain([tiles |-> SliceElems(h, it.tiles, 0, it.tiles.len),
           positions |-> SliceElems(h, it.positions, 0, it.positions.len),
           index |-> 0])

\* the client keeps the iterator i that GetTiles built over the buffers b
StoreHolds(b, i) ==
    /\ heap' = i.heap
    /\ store' = [data |-> b.data, positions |-> b.positions,
                 held |-> Append(store.held,
                                 [tiles |-> i.tiles, positions |-> i.positions,
                                  seen |-> HeldSlices(i.heap, i)])]

StoreKeeps(b) ==
    /\ heap' = b.heap
    /\ store' = [store EXCEPT !.data = b.data, !.positions = b.positions]

StoreBuffers == [heap |-> heap, data |-> store.data, positions |-> store.positions]

\* GetTiles: an error returns TileIterator{}, which owns nothing
StoreGetTiles(r) ==
    IF r.err # ""
    THEN StoreKeeps(StoreBuffers)
    ELSE StoreHolds(StoreQueried(StoreBuffers, r.path, r.tm),
                    StoredIterator(StoreQueried(StoreBuffers, r.path, r.tm)))

StGetTiles(frame) ==
    /\ target = "Store"
    /\ Len(store.held) < MaxHeld
    /\ GetTilesReturned(GetTiles(tm, frame))
    /\ StoreGetTiles(GetTiles(tm, frame))
    /\ UNCHANGED <<own, cm, threads, calc, target, mapVars>>

\* SetTmx reaches FlushCache once the document is not nil and has layers
StSetTmx(tmx) ==
    /\ target = "Store"
    /\ SetTmxReturned(SetTmx(tm, tmx))
    /\ itr' = EmptyIterator
    /\ IF tmx = NilTmx \/ Len(Docs[tmx].Layers) = 0
       THEN StoreKeeps(StoreBuffers)
       ELSE StoreKeeps(StoreFlushed(StoreBuffers))
    /\ UNCHANGED <<own, cm, threads, calc, target, mapVars>>

StFlushCache ==
    /\ target = "Store"
    /\ tm' = FlushCache(tm)
    /\ ret' = Ret("FlushCache", "", "none")
    /\ itr' = EmptyIterator
    /\ StoreKeeps(StoreFlushed(StoreBuffers))
    /\ UNCHANGED <<own, cm, threads, calc, target, hist, decodeFailed, mapVars>>

InitStore ==
    /\ target = "Store"
    /\ InitSeq
    /\ heap = NewHeap
    /\ store = NewStore
    /\ cm = SharedMap(NewMap)
    /\ threads = <<>>
    /\ own = NoOwn

NextStore ==
    \/ \E tmx \in StoreRefs : StSetTmx(tmx)
    \/ StFlushCache
    \/ \E frame \in StoreFrames : StGetTiles(frame)

SpecStore == InitStore /\ [][NextStore]_vars

(***************************************************************************)
(* src/unnamed/part_001 : the Chunks and Layers of several Maps            *)
(*                                                                         *)
(* own follows the objects themselves.  A Chunk or a Layer is the number   *)
(* it got when the pool's New made it; own.grid[l] is the list of Chunks   *)
(* in the hash.Grid of the Layer l, own.maps[k].layers the list of Layers  *)
(* of the k-th Map, and the two pools are bags of objects, one copy for    *)
(* every Put that no Get has answered.  sync.Pool.Get hands out any object *)
(* the pool holds or a new one from New: a pool that has dropped an object *)
(* answers with a new one.                                                 *)
(***************************************************************************)
\* the Maps a program makes
MaxMaps == 2

\* the Chunks and the Layers the pools' New functions make
MaxChunkObjs == 4

MaxLayerObjs == 3

PoolRefs == {NilTmx, 2, 3, 4, 7}

\* chunkPool.Get: the pools after it, with the Chunk it returned
ChunkGets(o) ==
    {[o |-> [o EXCEPT !.chunkPool = @ (-) SetToBag({c})], got |-> c] :
        c \in BagToSet(o.chunkPool)}
    \cup (IF o.chunks < MaxChunkObjs
          THEN {[o |-> [o EXCEPT !.chunks = @ + 1], got |-> o.chunks + 1]}
          ELSE {})

\* layerPool.Get: a Layer from New has an empty grid, a pooled Layer the grid
\* it was put back with
LayerGets(o) ==
    {[o |-> [o EXCEPT !.layerPool = @ (-) SetToBag({l})], got |-> l] :
        l \in BagToSet(o.layerPool)}
    \cup (IF o.layers < MaxLayerObjs
          THEN {[o |-> [o EXCEPT !.layers = @ + 1, !.grid = Append(@, <<>>)],
                 got |-> o.layers + 1]}
          ELSE {})

\* chunkPool.Get and Grid.Insert into the Layer l, n times over
RECURSIVE InsertedChunks(_, _, _)
InsertedChunks(os, l, n) ==
    IF n = 0
    THEN os
    ELSE InsertedChunks(
            UNION {{[g.o EXCEPT !.grid[l] = Append(@, g.got)] : g \in ChunkGets(o)} :
                      o \in os},
            l, n - 1)

\* multiChunklayer / singleChunkLayer on the Map k, for a layer of n chunks
OwnLayerBuilt(o, k, n) ==
    UNION {{[b EXCEPT !.maps[k].layers = Append(@, g.got)] :
               b \in InsertedChunks({g.o}, g.got, n)} :
             g \in LayerGets(o)}

\* Map.buildLayers, counts being the chunks of the layers it builds
RECURSIVE OwnBuilt(_, _, _)
OwnBuilt(os, k, counts) ==
    IF counts = <<>>
    THEN os
    ELSE OwnBuilt(UNION {OwnLayerBuilt(o, k, Head(counts)) : o \in os}, k, Tail(counts))

RECURSIVE PutAll(_, _)
PutAll(pool, cs) ==
    IF cs = <<>> THEN pool ELSE PutAll(pool (+) SetToBag({Head(cs)}), Tail(cs))

\* a variant of OwnLayerFlushed that leaves the grid as it is
OwnLayerFlushedKeepsGrid(o, l) ==
    [o EXCEPT !.chunkPool = PutAll(@, o.grid[l])]

\* Layer.Flush: every Chunk of the grid is put back, then the grid is cleared
OwnLayerFlushed(o, l) ==
    [o EXCEPT !.chunkPool = PutAll(@, o.grid[l]), !.grid[l] = <<>>]

\* Map.flush: the loop over tm.layers, first to last
RECURSIVE OwnLayersFlushed(_, _)
OwnLayersFlushed(o, ls) ==
    IF ls = <<>>
    THEN o
    ELSE OwnLayersFlushed(
            [OwnLayerFlushed(o, Head(ls)) EXCEPT !.layerPool = @ (+) SetToBag({Head(ls)})],
            Tail(ls))

OwnFlushed(o, k) ==
    [OwnLayersFlushed(o, o.maps[k].layers) EXCEPT !.maps[k].layers = <<>>]

\* the chunks of the layers Map.buildLayers gets to
BuildCounts(tmx) ==
    LET built == IF MapPanics(tmx) THEN BuiltBeforePanic(tmx) ELSE tmx
    IN  [i \in 1..Len(built.Layers) |-> Len(ChunkPlan(built, i))]

\* func init: the second Get of a pool may return what the first Put stored
SeededPools ==
    {[NoOwn EXCEPT !.chunks = c, !.layers = l,
                   !.grid = [i \in 1..l |-> <<>>],
                   !.chunkPool = SetToBag(1..c),
                   !.layerPool = SetToBag(1..l)] : c \in 1..2, l \in 1..2}

PoNewMap ==
    /\ target = "Pool"
    /\ Len(own.maps) < MaxMaps
    /\ own' = [own EXCEPT !.maps = Append(@, [Tmx |-> NilTmx, layers |-> <<>>])]
    /\ ret' = Ret("New", "", "none")
    /\ UNCHANGED <<store, concVars, calc, target, tm, itr, hist, decodeFailed, mapVars>>

PoSetTmx(k, tmx) ==
    /\ target = "Pool"
    /\ k \in 1..Len(own.maps)
    /\ IF MapSetTmxErr(tmx) # ""
       THEN /\ own' = own
            /\ ret' = Ret("SetTmx", MapSetTmxErr(tmx), "none")
       ELSE /\ own' \in OwnBuilt({[OwnFlushed(own, k) EXCEPT !.maps[k].Tmx = tmx]},
                                 k, BuildCounts(Docs[tmx]))
            /\ ret' = Ret("SetTmx", IF MapPanics(Docs[tmx]) THEN PanicIndex ELSE "", "none")
    /\ UNCHANGED <<store, concVars, calc, target, tm, itr, hist, decodeFailed, mapVars>>

PoFlush(k) ==
    /\ target = "Pool"
    /\ k \in 1..Len(own.maps)
    /\ own' = OwnFlushed(own, k)
    /\ ret' = Ret("Flush", "", "none")
    /\ UNCHANGED <<store, concVars, calc, target, tm, itr, hist, decodeFailed, mapVars>>

InitPool ==
    /\ target = "Pool"
    /\ InitSeq
    /\ heap = <<>>
    /\ cm = SharedMap(NewMap)
    /\ threads = <<>>
    /\ store = NoStore
    /\ own \in SeededPools

NextPool ==
    \/ PoNewMap
    \/ \E k \in 1..MaxMaps, tmx \in PoolRefs : PoSetTmx(k, tmx)
    \/ \E k \in 1..MaxMaps : PoFlush(k)

SpecPool == InitPool /\ [][NextPool]_vars

(***************************************************************************)
(* Properties of tiled.Tilemap                                             *)
(***************************************************************************)
\* a Tilemap on which nothing but SetTmx(tmx) has been called
FreshTilemap(tmx) == SetTmx(NewTilemap, tmx).tm

\* the tiles of document layer i in a region, looked up in a fresh Tilemap
LayerTiles(tmx, i, region) ==
    IF IsVisible(Docs[tmx].Layers[i])
    THEN scanCells(Docs[tmx],
                   [layers |-> FreshTilemap(tmx).decodedLayers,
                    data |-> <<>>, positions |-> <<>>],
                   RegionCells(region), i, 1).data
    ELSE <<>>

\* the slices an iterator yields are the tiles of the document's layers
SlicesAreLayers(slices, tmx, region) ==
    /\ Len(slices) = Len(Docs[tmx].Layers)
    /\ \A i \in 1..Len(slices) : slices[i] = LayerTiles(tmx, i, region)

\* C1: every successful GetTiles returns an iterator whose Next yields exactly
\* len(Tmx.Layers) slices before nil, the i-th holding the tiles of layer i
C1_OneSlicePerLayer ==
    (target = "Tilemap" /\ ret.op = "GetTiles" /\ ret.err = "")
        => SlicesAreLayers(Drain(itr), tm.Tmx, tm.cachedTileRegion)

\* the cell value a finite layer holds at flat index idx, <<0, 0>> past the end
CellValue(content, idx) ==
    IF idx >= 0 /\ idx < Len(content) THEN content[idx + 1] ELSE <<0, 0>>

\* a cell value that names a tile of some tileset
Resolvable(tmx, v) ==
    /\ v # <<0, 0>>
    /\ MaskGID(v) # 0
    /\ \E k \in 1..Len(tmx.Tilesets) : tmx.Tilesets[k].FirstGID <= MaskGID(v)

\* the cells of region R for which a finite layer must yield a tile
ExpectedCells(tmx, layer, R) ==
    {c \in (R.MinX..(R.MaxX - 1)) \X (R.MinY..(R.MaxY - 1)) :
        /\ IsVisible(layer)
        /\ c[1] >= 0 /\ c[1] < tmx.Width /\ c[2] >= 0 /\ c[2] < tmx.Height
        /\ c[2] * tmx.Width + c[1] < Len(decodeCSV(layer.Data.Content).data)
        /\ Resolvable(tmx, CellValue(decodeCSV(layer.Data.Content).data,
                                     c[2] * tmx.Width + c[1]))}

\* the cell a tile was found at, from its world position
CellOf(tmx, tile) == <<tile.X \div tmx.TileWidth, tile.Y \div tmx.TileHeight>>

\* a slice holds one tile for every cell of a set and nothing else
OneTilePerCell(tmx, slice, cells) ==
    /\ Len(slice) = Cardinality(cells)
    /\ {CellOf(tmx, slice[k]) : k \in 1..Len(slice)} = cells

CachedSlice(t, i) ==
    SubSeqHalfOpen(t.cachedTileData, t.cachedPositions[i], t.cachedPositions[i + 1])

\* C2: in a finite Tilemap, after a rebuild for region R, layer i's slice has
\* a tile for cell (x,y) iff the layer is visible, the cell is in R and in the
\* map, its flat index is inside the decoded content and its value is nonzero
\* with a nonzero masked id owned by some tileset; each such cell once; an
\* invisible layer's slice is empty
C2_RebuildHoldsExactlyResolvableCells ==
    (/\ target = "Tilemap"
     /\ ret.op = "GetTiles" /\ ret.path \in {"rebuild", "compatible"}
     /\ ~IsInfinite(Docs[tm.Tmx]))
        => \A i \in 1..Len(Docs[tm.Tmx].Layers) :
              OneTilePerCell(Docs[tm.Tmx], CachedSlice(tm, i),
                             ExpectedCells(Docs[tm.Tmx], Docs[tm.Tmx].Layers[i],
                                           tm.cachedTileRegion))

\* a rebuild over the whole of DocA: two tiles from the first layer, none from
\* the invisible second, two from the short third
C2_Witness ==
    /\ target = "Tilemap"
    /\ ret.op = "GetTiles" /\ ret.path = "rebuild"
    /\ tm.Tmx = 1
    /\ tm.cachedTileRegion = TileRegion(0, 0, 2, 2)
    /\ tm.cachedPositions = <<0, 2, 2, 4>>

\* C3: the tiles the last query returned, layer by layer and in order, are
\* those the same query returns on a fresh Tilemap holding the same document
C3_SameAsFreshTilemap ==
    (target = "Tilemap" /\ ret.op = "GetTiles" /\ ret.err = "")
        => Drain(itr) = Drain(GetTilesRegion(FreshTilemap(tm.Tmx), tm.cachedTileRegion).itr)

\* C5: after SetTmx(doc2) succeeded on a map that served queries before, every
\* GetTiles result holds only doc2's tiles and covers len(doc2.Layers) layers
C5_OnlyNewDocumentAfterSwap ==
    (target = "Tilemap" /\ hist = "swapped" /\ ret.op = "GetTiles" /\ ret.err = "")
        => SlicesAreLayers(Drain(itr), tm.Tmx, tm.cachedTileRegion)

(***************************************************************************)
(* Properties of both engines                                              *)
(***************************************************************************)
\* two answers agree: the same error, and iterators that yield the same
\* slices in the same order
SameAnswer(err1, itr1, err2, itr2) == err1 = err2 /\ Drain(itr1) = Drain(itr2)

GetTilesAgainAgrees(r1, r2) == SameAnswer(r1.err, r1.itr, r2.err, r2.itr)

BufferFrameAgainAgrees(r1, r2) == SameAnswer(r1.err, MapItr(r1.m), r2.err, MapItr(r2.m))

\* GetTiles(frame) asked again on the map the first call left
GetTilesAgain(r1, frame) == GetTilesAgainAgrees(r1, GetTiles(r1.tm, frame))

\* Frame().Set(frame); BufferFrame(); Itr() asked again on the map the first
\* BufferFrame left
BufferFrameAgain(r1) == BufferFrameAgainAgrees(r1, BufferFrame(r1.m))

\* C4: the same frame queried twice in a row, with nothing in between, yields
\* the same per-layer tile sequences both times, on a Tilemap (GetTiles) and
\* on a Map (BufferFrame + Itr), from every reachable state
C4_SameFrameTwiceSameTiles ==
    /\ target = "Tilemap" =>
          \A frame \in Frames : GetTilesAgain(GetTiles(tm, frame), frame)
    /\ target = "Map" =>
          \A frame \in MapFrames :
              BufferFrameAgain(BufferFrame([m EXCEPT !.frame = frame]))

\* a GetTiles answered from the cache an earlier GetTiles of the same region
\* filled with tiles
C4_Witness ==
    /\ target = "Tilemap"
    /\ ret.op = "GetTiles" /\ ret.path = "hit"
    /\ Len(tm.cachedTileData) > 0
    /\ Len(Drain(itr)) = Len(Docs[tm.Tmx].Layers)

\* offsets of n layers over a tile buffer: n + 1 of them, from 0, never
\* decreasing, up to the length of the buffer
OffsetsWellFormed(positions, data, n) ==
    /\ Len(positions) = n + 1
    /\ positions[1] = 0
    /\ \A i \in 1..n : positions[i] <= positions[i + 1]
    /\ positions[n + 1] = Len(data)

\* C7: after every cache rebuild, in Tilemap and in Map, the offsets buffer
\* has layerCount + 1 elements, starts at 0, is non-decreasing and ends at the
\* length of the tile buffer
C7_OffsetsAfterRebuild ==
    /\ (target = "Tilemap" /\ ret.op = "GetTiles" /\ ret.path \in {"rebuild", "compatible"})
          => OffsetsWellFormed(tm.cachedPositions, tm.cachedTileData,
                               Len(Docs[tm.Tmx].Layers))
    /\ (target = "Map" /\ ret.op = "BufferFrame" /\ ret.path = "rebuild")
          => OffsetsWellFormed(m.cachedPositions, m.cachedData,
                               Len(Docs[m.Tmx].Layers))

\* a rebuild of a Map over the whole of DocA: two tiles, none, two
C7_Witness ==
    /\ target = "Map"
    /\ ret.op = "BufferFrame" /\ ret.path = "rebuild"
    /\ m.Tmx = 1
    /\ m.cachedPositions = <<0, 2, 2, 4>>
    /\ Len(m.cachedData) = 4

(***************************************************************************)
(* Properties of tilemap.Map                                               *)
(***************************************************************************)
\* the slices of a frame computed from the document alone: the cache of a
\* fresh Map filled for the frame's region
FreshMapSlices(tmx, frame) ==
    Drain(MapItr(MapUpdateCache(FreshMap(tmx),
                                computeTileRegion([FreshMap(tmx) EXCEPT !.frame = frame]))))

\* C6: after SetTmx(doc2) succeeded on a Map that buffered frames of doc1,
\* BufferFrame followed by Itr yields the tiles decoded from doc2's payloads,
\* one slice per doc2 layer: what a Map that never held doc1 yields
C6_OnlyNewDocumentAfterMapSwap ==
    (target = "Map" /\ hist = "swapped" /\ ret.op = "Itr" /\ Len(m.layers) > 0)
        => Drain(itr) = FreshMapSlices(m.Tmx, m.frame)

\* C8: after Map.SetTmx succeeds or Map.Flush runs, the query cache is clear:
\* no cached tiles, no offsets, and the cached region reset
C8_CacheClearedBySetTmxAndFlush ==
    (target = "Map" /\ ret.op \in {"SetTmx", "Flush"} /\ ret.err = "")
        => /\ m.cachedData = <<>>
           /\ m.cachedPositions = <<>>
           /\ m.cachedRegion = ZeroRegion

\* C9: every Chunk in the chunk pool is reset: its memo map is empty, its
\* decoded flag is false and its raw payload is cleared
C9_PooledChunksAreReset ==
    \A c \in BagToSet(chunkPool) :
        /\ c.tiles = NoTiles
        /\ ~c.isDecoded
        /\ c.raw = NoContent

(***************************************************************************)
(* Properties of concurrent use                                            *)
(***************************************************************************)
\* C10: every goroutine that ran Set(f); BufferFrame(); Itr(); Next() to the
\* end got exactly the per-layer slices of f's region, those a single
\* goroutine gets, and no slice expression was out of range
C10_ConcurrentQueriesAgree ==
    \A t \in DOMAIN threads :
        threads[t].pc = "done"
            => /\ ~threads[t].panicked
               /\ threads[t].out = FreshMapSlices(cm.Tmx, ConcFrame)

(***************************************************************************)
(* Properties of the error paths                                           *)
(***************************************************************************)
\* C11: once a SetTmx of a Tilemap has failed to decode its document, every
\* GetTiles returns an error until a later SetTmx succeeds, whether or not a
\* document had been set before
C11_NoQueriesAfterDecodeFailure ==
    (target = "Tilemap" /\ decodeFailed /\ ret.op = "GetTiles") => ret.err # ""

\* a document SetTmx rejects before it touches the map
Rejected(tmx) == IF tmx = NilTmx THEN TRUE ELSE Len(Docs[tmx].Layers) = 0

\* Tilemap.SetTmx(tmx) from the current state
TilemapSetTmxOutcome(r, tmx) ==
    IF Rejected(tmx)
    THEN r.err = ErrInvalidTmxData /\ r.tm = tm
    ELSE r.err = "" => r.tm.Tmx = tmx

\* Map.SetTmx(tmx) from the current state, whatever the pool hands out
MapSetTmxOutcome(tmx, pool) ==
    IF Rejected(tmx)
    THEN MapSetTmxErr(tmx) = ErrInvalidTmxData
    ELSE MapPanics(Docs[tmx]) \/
         \A picks \in [1..Len(AllPlans(Docs[tmx])) -> PickSet(pool)] :
                PicksOk(pool, picks) => MapSetTmx(m, tmx, picks).m.Tmx = tmx

\* a step in which Map.SetTmx returned ErrInvalidTmxData
MapSetTmxRejectedStep ==
    target = "Map" /\ ret'.op = "SetTmx" /\ ret'.err = ErrInvalidTmxData

\* C12: SetTmx of a nil document or of a document without layers returns
\* ErrInvalidTmxData and leaves the whole map as it was (document, layers,
\* bounds, cached region, cached tiles, offsets), on a Tilemap and on a Map;
\* a SetTmx that succeeds leaves Tmx equal to the document given
C12_RejectedSetTmxChangesNothing ==
    /\ [](target = "Tilemap" =>
             \A tmx \in TmxRefs : TilemapSetTmxOutcome(SetTmx(tm, tmx), tmx))
    /\ [](target = "Map" =>
             \A tmx \in TmxRefs :
                 MapSetTmxOutcome(tmx, ChunkPoolFlushed(m, chunkPool)))
    /\ [][MapSetTmxRejectedStep =>
             (m' = m /\ chunkPool' = chunkPool /\ layerPool' = layerPool)]_vars

\* a SetTmx was rejected on a Tilemap that holds a document and a filled cache
C12_Witness ==
    /\ target = "Tilemap"
    /\ ret.op = "SetTmx"
    /\ ret.err = ErrInvalidTmxData
    /\ tm.Tmx # NilTmx
    /\ Len(tm.cachedTileData) > 0

\* GetTiles answered ErrNoTmxData and left the Tilemap as it was
GetTilesNoDocument(r) == r.err = ErrNoTmxData /\ r.tm = tm

\* BufferFrame answered ErrNoTmxData and left the Map as the Set left it
BufferFrameNoDocument(r, frame) ==
    r.err = ErrNoTmxData /\ r.m = [m EXCEPT !.frame = frame]

\* a step in which GetTileset returned
GetTilesetStep == ret'.op = "GetTileset" /\ ret' # ret

\* C13: as long as no SetTmx has succeeded, GetTiles, BufferFrame and
\* GetTileset return ErrNoTmxData and change nothing of the map
C13_NoDocumentNoAnswer ==
    /\ []((target = "Tilemap" /\ hist = "none") =>
             /\ \A frame \in Frames : GetTilesNoDocument(GetTiles(tm, frame))
             /\ \A index \in TilesetIdx :
                    GetTileset(tm, index).err = ErrNoTmxData)
    /\ []((target = "Map" /\ hist = "none" /\ ~Aborted) =>
             /\ \A frame \in MapFrames :
                    BufferFrameNoDocument(BufferFrame([m EXCEPT !.frame = frame]),
                                          frame)
             /\ \A index \in TilesetIdx :
                    MapGetTileset(m, index).err = ErrNoTmxData)
    /\ [][GetTilesetStep =>
             (tm' = tm /\ m' = m /\ chunkPool' = chunkPool
                       /\ layerPool' = layerPool)]_vars

\* a query came back with ErrNoTmxData after the only SetTmx so far failed
C13_Witness ==
    /\ target = "Tilemap"
    /\ hist = "none"
    /\ decodeFailed
    /\ ret.op = "GetTiles"
    /\ ret.err = ErrNoTmxData

\* frames with minX > maxX or minY > maxY
InvalidFrames == {frame \in Frames : frame[1] > frame[3] \/ frame[2] > frame[4]}

\* GetTiles refused the frame: an error, an empty iterator, the Tilemap as it was
RefusedUntouched(r) ==
    /\ r.err = ErrInvalidBounds
    /\ r.itr = EmptyIterator
    /\ r.tm = tm

\* C14: with a document set, GetTiles with minX > maxX or minY > maxY returns
\* an error and an empty iterator and leaves the cached region, the cached
\* tiles, the offsets and the memo maps exactly as they were
C14_InvalidBoundsChangeNothing ==
    (target = "Tilemap" /\ tm.Tmx # NilTmx /\ Len(tm.decodedLayers) > 0)
        => \A frame \in InvalidFrames : RefusedUntouched(GetTiles(tm, frame))

\* a frame was refused while the cache held the tiles of an earlier query
C14_Witness ==
    /\ target = "Tilemap"
    /\ ret.op = "GetTiles"
    /\ ret.err = ErrInvalidBounds
    /\ Len(tm.cachedTileData) > 0

\* what GetTileset(index) is to return on a map that holds the document doc
TilesetAnswer(doc, index) ==
    IF index < 0 \/ index >= Len(doc.Tilesets)
    THEN [ts |-> NilTileset, err |-> ErrTilesetNotFound]
    ELSE IF doc.Tilesets[index + 1].Source = ""
    THEN [ts |-> NilTileset, err |-> ErrTilesetSource]
    ELSE [ts |-> index, err |-> ""]

\* C15: with a document set, GetTileset(i) returns ErrTilesetNotFound for
\* every i outside [0, len(Tilesets)), ErrTilesetSource when tileset i has an
\* empty Source, and the tileset at index i otherwise
C15_GetTilesetAnswers ==
    /\ (target = "Tilemap" /\ tm.Tmx # NilTmx) =>
            \A index \in TilesetIdx :
                GetTileset(tm, index) = TilesetAnswer(Docs[tm.Tmx], index)
    /\ (target = "Map" /\ m.Tmx # NilTmx) =>
            \A index \in TilesetIdx :
                MapGetTileset(m, index) = TilesetAnswer(Docs[m.Tmx], index)

\* C16: Map.SetTmx returns nil or an error value, without aborting, for every
\* non-nil document with at least one layer, whatever the number of chunks of
\* its layers
C16_MapSetTmxAlwaysReturns ==
    (target = "Map" /\ ret.op = "SetTmx") => ret.err \in {"", ErrInvalidTmxData}

(***************************************************************************)
(* Properties of chunked layers                                            *)
(***************************************************************************)
\* the cells a chunk of the document covers
ChunkCellSet(c) == (c.X..(c.X + c.Width - 1)) \X (c.Y..(c.Y + c.Height - 1))

\* two chunks that share an edge and no cell
Adjacent(a, b) ==
    /\ ChunkCellSet(a) \cap ChunkCellSet(b) = {}
    /\ \/ (a.X + a.Width = b.X /\ a.Y = b.Y /\ a.Height = b.Height)
       \/ (a.Y + a.Height = b.Y /\ a.X = b.X /\ a.Width = b.Width)

TwoAdjacentChunks(layer) ==
    /\ Len(layer.Data.Chunks) = 2
    /\ Adjacent(layer.Data.Chunks[1], layer.Data.Chunks[2])

\* the region has cells of every chunk of the layer
SpansChunks(layer, R) ==
    \A k \in 1..Len(layer.Data.Chunks) :
        ChunkCellSet(layer.Data.Chunks[k])
            \cap ((R.MinX..(R.MaxX - 1)) \X (R.MinY..(R.MaxY - 1))) # {}

\* the value the chunk's payload holds for a cell of the chunk
ChunkCellValue(c, cell) ==
    CellValue(decodeCSV(c.Content).data,
              (cell[2] - c.Y) * c.Width + (cell[1] - c.X))

\* the cells of region R for which a layer of chunks must yield a tile
ExpectedChunkCells(tmx, layer, R) ==
    {cell \in (R.MinX..(R.MaxX - 1)) \X (R.MinY..(R.MaxY - 1)) :
        /\ IsVisible(layer)
        /\ \E k \in 1..Len(layer.Data.Chunks) :
              /\ cell \in ChunkCellSet(layer.Data.Chunks[k])
              /\ Resolvable(tmx, ChunkCellValue(layer.Data.Chunks[k], cell))}

\* C17: in an infinite Tilemap, for a layer of two adjacent chunks that do not
\* overlap and a region that spans both, the layer's slice holds exactly one
\* tile for every nonzero, resolvable cell of the two chunks inside the region
C17_AdjacentChunksNoGapNoDuplicate ==
    (/\ target = "Tilemap"
     /\ ret.op = "GetTiles" /\ ret.err = ""
     /\ IsInfinite(Docs[tm.Tmx]))
        => \A i \in 1..Len(Docs[tm.Tmx].Layers) :
              (/\ TwoAdjacentChunks(Docs[tm.Tmx].Layers[i])
               /\ SpansChunks(Docs[tm.Tmx].Layers[i], tm.cachedTileRegion))
                  => OneTilePerCell(Docs[tm.Tmx], CachedSlice(tm, i),
                                    ExpectedChunkCells(Docs[tm.Tmx],
                                                       Docs[tm.Tmx].Layers[i],
                                                       tm.cachedTileRegion))

\* a rebuild over both chunks of the first layer of DocB: its three nonzero
\* cells, two of them on the shared edge
C17_Witness ==
    /\ target = "Tilemap"
    /\ ret.op = "GetTiles" /\ ret.path = "rebuild"
    /\ tm.Tmx = 2
    /\ SpansChunks(DocB.Layers[1], tm.cachedTileRegion)
    /\ Len(CachedSlice(tm, 1)) = 3

(***************************************************************************)
(* Properties of the cache                                                 *)
(***************************************************************************)
\* a frame GetTiles accepts on the Tilemap as it is
Queryable(frame) ==
    /\ tm.Tmx # NilTmx
    /\ Len(tm.decodedLayers) > 0
    /\ frame[1] <= frame[3]
    /\ frame[2] <= frame[4]

\* the frame's tile region is the cached one
TilemapExactHit(frame) ==
    RegionEqual(calculateQueryRegion(frame, Docs[tm.Tmx].TileWidth,
                                     Docs[tm.Tmx].TileHeight),
                tm.cachedTileRegion)

\* the Map with its frame set
Framed(frame) == [m EXCEPT !.frame = frame]

MapExactHit(mp) ==
    /\ mp.Tmx # NilTmx
    /\ Len(mp.layers) > 0
    /\ RegionEqual(computeTileRegion(mp), mp.cachedRegion)

\* C18: a query whose tile region equals the cached region recomputes
\* nothing: the cached region, the tile buffer, the offsets and the memo maps
\* are after the call what they were before it, for GetTiles and BufferFrame
C18_ExactHitChangesNothing ==
    /\ target = "Tilemap" =>
          \A frame \in Frames :
              (Queryable(frame) /\ TilemapExactHit(frame))
                  => GetTiles(tm, frame).tm = tm
    /\ target = "Map" =>
          \A frame \in MapFrames :
              MapExactHit(Framed(frame))
                  => BufferFrame(Framed(frame)).m = Framed(frame)

\* a BufferFrame found its region cached, with tiles in the buffer
C18_Witness ==
    /\ target = "Map"
    /\ ret.op = "BufferFrame" /\ ret.path = "hit"
    /\ Len(m.cachedData) > 0

\* the chunks of the layers of a Map
MapChunks(mp) ==
    UNION {{mp.layers[i].items[k].chunk : k \in 1..Len(mp.layers[i].items)} :
              i \in 1..Len(mp.layers)}

\* C19: in a Map no payload is decoded by SetTmx, and a payload is decoded at
\* most once, at the first lookup in its chunk, whatever that decode returned
C19_PayloadDecodedAtMostOnce ==
    target = "Map" =>
        \A c \in MapChunks(m) :
            /\ c.decodes <= 1
            /\ (ret.op = "SetTmx" => c.decodes = 0)

(***************************************************************************)
(* Properties of Flush                                                     *)
(***************************************************************************)
\* a document Map.SetTmx can build layers from: it has layers, and when it is
\* infinite each of them has a chunk
ValidForMap(tmx) == ~Rejected(tmx) /\ ~MapPanics(Docs[tmx])

\* SetTmx returned nil and built one layer per layer of the document
BuiltAllLayers(r, tmx) ==
    /\ r.err = ""
    /\ Len(r.m.layers) = Len(Docs[tmx].Layers)

SetTmxBuildsAllLayers(tmx, pool) ==
    \A picks \in [1..Len(AllPlans(Docs[tmx])) -> PickSet(pool)] :
        PicksOk(pool, picks) => BuiltAllLayers(MapSetTmx(m, tmx, picks), tmx)

\* a step in which Map.Flush returned
FlushStep == target = "Map" /\ ret'.op = "Flush"

\* the layer list is empty, the document and the frame are those of before,
\* and each pool got what the map held, as far as it keeps what it is given
FlushOutcome ==
    /\ m'.layers = <<>>
    /\ m'.Tmx = m.Tmx
    /\ m'.frame = m.frame
    /\ BagCardinality(chunkPool') =
          Min2(BagCardinality(chunkPool) + Cardinality(DOMAIN flushPuts(m.layers)),
               MaxPool)
    /\ layerPool' = Min2(layerPool + Len(m.layers), MaxPool)

HasFlag(flags, f) == (flags \div f) % 2 = 1

\* C21: DecodeGID returns as tile id the cell value without its four flag
\* bits, and reports the diagonal and hex rotation flags exactly when their
\* bits are set, and the horizontal and vertical flags exactly when theirs are
\* (as they stand before the diagonal composition)
C21_DecodeGIDStripsFourFlags ==
    calc.fn = "DecodeGID" =>
        /\ calc.out.tileID = calc.in[2]
        /\ HasFlag(calc.out.flags, FlipHex) <=> TopBit(calc.in, 0)
        /\ HasFlag(calc.out.flags, FlipDiagonal) <=> TopBit(calc.in, 1)
        /\ ~TopBit(calc.in, 1) =>
              /\ HasFlag(calc.out.flags, FlipHorizontal) <=> TopBit(calc.in, 3)
              /\ HasFlag(calc.out.flags, FlipVertical) <=> TopBit(calc.in, 2)

\* the flags DecodeGID returned for a value whose diagonal bit is set and
\* which has exactly one of the horizontal and vertical bits
Swapped(gid, flags) ==
    /\ HasFlag(flags, FlipDiagonal)
    /\ HasFlag(flags, FlipHorizontal) <=> ~TopBit(gid, 3)
    /\ HasFlag(flags, FlipVertical) <=> ~TopBit(gid, 2)

\* C22: with the diagonal bit and exactly one of the horizontal and vertical
\* bits set, DecodeGID clears that one, sets the other and keeps diagonal;
\* with the diagonal bit clear, horizontal and vertical equal their bits
C22_DiagonalSwapsHorizontalVertical ==
    calc.fn = "DecodeGID" =>
        /\ (TopBit(calc.in, 1) /\ (TopBit(calc.in, 3) # TopBit(calc.in, 2)))
              => Swapped(calc.in, calc.out.flags)
        /\ ~TopBit(calc.in, 1) =>
              /\ HasFlag(calc.out.flags, FlipHorizontal) <=> TopBit(calc.in, 3)
              /\ HasFlag(calc.out.flags, FlipVertical) <=> TopBit(calc.in, 2)

\* 0xA0000005, horizontal and diagonal: tile id 5 with vertical and diagonal
C22_Witness ==
    /\ calc.fn = "DecodeGID"
    /\ calc.in = <<10, MaxCellLow>>
    /\ calc.out = [tileID |-> MaxCellLow, flags |-> FlipVertical + FlipDiagonal]

\* index idx (0-based) is the last tileset of the list that starts at or
\* below gid, and local is gid counted from its FirstGID
OwnerOf(firsts, gid, idx, local) ==
    /\ idx \in 0..(Len(firsts) - 1)
    /\ firsts[idx + 1] <= gid
    /\ \A j \in (idx + 2)..Len(firsts) : firsts[j] > gid
    /\ local = gid - firsts[idx + 1]

\* getTile found the tile exactly when the id is nonzero and has an owner,
\* and the tile carries the owner's index and the local id
TileCarriesOwner(gid, ts, t) ==
    /\ t.found <=> (gid # 0 /\ ts.tsIdx # -1)
    /\ t.found => (t.TsIdx = ts.tsIdx /\ t.TileID = ts.tileID)

\* C23: with tilesets sorted by FirstGID, TilesetByGID returns the
\* highest-index tileset whose FirstGID <= gid with the local id gid - FirstGID,
\* and index -1 exactly when gid is below every FirstGID or there is no
\* tileset; a tile resolved through it carries that index and local id
C23_TilesetByGIDPicksLastOwner ==
    calc.fn = "TilesetByGID" =>
        /\ calc.out.ts.tsIdx = -1
              <=> \A i \in 1..Len(calc.in[1]) : calc.in[2] < calc.in[1][i]
        /\ calc.out.ts.tsIdx # -1
              => OwnerOf(calc.in[1], calc.in[2], calc.out.ts.tsIdx, calc.out.ts.tileID)
        /\ TileCarriesOwner(calc.in[2], calc.out.ts, calc.out.tile)

\* id 4 in tilesets starting at 1, 2 and 4: the third one, local id 0
C23_Witness ==
    /\ calc.fn = "TilesetByGID"
    /\ calc.in = << <<1, 2, 4>>, 4 >>
    /\ calc.out.ts.tsIdx = 2
    /\ calc.out.ts.tileID = 0
    /\ calc.out.tile.found

(***************************************************************************)
(* Properties of the region and bounds computations                        *)
(***************************************************************************)
\* n is the floor of a / b: the last multiple of b at or below a
IsFloor(n, a, b) == n * b <= a /\ a < (n + 1) * b

\* n is the ceiling of a / b: the first multiple of b at or above a
IsCeil(n, a, b) == (n - 1) * b < a /\ a <= n * b

CoversMinimally(R, frame, tileWidth, tileHeight) ==
    /\ IsFloor(R.MinX, frame[1], tileWidth)
    /\ IsFloor(R.MinY, frame[2], tileHeight)
    /\ IsCeil(R.MaxX, frame[3], tileWidth)
    /\ IsCeil(R.MaxY, frame[4], tileHeight)

\* C24: for tile sizes > 0, calculateQueryRegion and computeTileRegion return
\* floor(min / size) and ceil(max / size) on each axis, the minimal tile region
\* that covers the frame, for negative coordinates too
C24_RegionIsFloorAndCeil ==
    calc.fn \in {"calculateQueryRegion", "computeTileRegion"} =>
        CoversMinimally(calc.out, calc.in[1], calc.in[2], calc.in[3])

\* frame (-17, 5, 260, 260) with tiles of 16 x 16: region (-2, 0, 17, 17)
C24_Witness ==
    /\ calc.fn = "calculateQueryRegion"
    /\ calc.in = << <<-17, 5, MaxQueryCoord, MaxQueryCoord>>, 16, 16 >>
    /\ calc.out.MinX = -2
    /\ calc.out.MinY = 0
    /\ calc.out.MaxX = (MaxQueryCoord + 15) \div 16

SetMin(S) == CHOOSE a \in S : \A b \in S : a <= b

\* the chunks of all layers of a document, as a set
ChunkSet(tmx) ==
    UNION {{tmx.Layers[i].Data.Chunks[k] : k \in 1..Len(tmx.Layers[i].Data.Chunks)} :
              i \in 1..Len(tmx.Layers)}

\* the union of the chunks' rectangles, in pixels
ChunkUnion(tmx, chunks) ==
    <<SetMin({c.X : c \in chunks}) * tmx.TileWidth,
      SetMin({c.Y : c \in chunks}) * tmx.TileHeight,
      SetMax({c.X + c.Width : c \in chunks}) * tmx.TileWidth,
      SetMax({c.Y + c.Height : c \in chunks}) * tmx.TileHeight>>

\* the extents Bounds is to return for a document
Extents(tmx) ==
    IF IsInfinite(tmx)
    THEN ChunkUnion(tmx, ChunkSet(tmx))
    ELSE <<0, 0, tmx.Width * tmx.TileWidth, tmx.Height * tmx.TileHeight>>

\* a step in which a SetTmx returned nil
SetTmxSucceededStep == ret'.op = "SetTmx" /\ ret'.err = ""

\* C25: Bounds is (0,0,0,0) before any document is set; once SetTmx has
\* succeeded it is (0, 0, Width*TileWidth, Height*TileHeight) for a finite
\* map and, for an infinite one with a chunk, the union of the rectangles of
\* all chunks of all layers scaled by the tile size; it changes on a
\* successful SetTmx only
C25_BoundsOfDocument ==
    /\ []((target = "Tilemap" /\ tm.Tmx = NilTmx) => Bounds(tm) = <<0, 0, 0, 0>>)
    /\ []((target = "Tilemap" /\ tm.Tmx # NilTmx
            /\ (IsInfinite(Docs[tm.Tmx]) => ChunkSet(Docs[tm.Tmx]) # {}))
               => Bounds(tm) = Extents(Docs[tm.Tmx]))
    /\ [][Bounds(tm') # Bounds(tm) => SetTmxSucceededStep]_vars

\* DocB was set: its four chunks span the tiles -1..1 by 0..1, two pixels
\* wide each
C25_Witness ==
    /\ target = "Tilemap"
    /\ ret.op = "SetTmx" /\ ret.err = ""
    /\ tm.Tmx = 2
    /\ Bounds(tm) = <<-2, 0, 4, 2>>

(***************************************************************************)
(* Properties of the CSV decoding.  int is taken to be 64 bits wide, as on *)
(* the platforms the module is built for.                                  *)
(***************************************************************************)
NonEmpty(text) == SelectSeq(text, LAMBDA t : t[1] # "empty")

\* the token is the decimal text of an unsigned 32-bit value
IsCellText(t) == t[1] = "num" /\ ~t[2] /\ t[3] < 16

\* the text is the comma-joined decimal text of the cell values, with
\* blanks around the tokens and empty tokens in between
IsTextOf(text, cells) ==
    LET toks == NonEmpty(text)
    IN  /\ Len(toks) = Len(cells)
        /\ \A k \in 1..Len(cells) :
              IsCellText(toks[k]) /\ toks[k][3] = cells[k][1] /\ toks[k][4] = cells[k][2]

CsvCells == {<<t[3], t[4]>> : t \in {u \in CsvTokens : IsCellText(u)}}
CsvCellSeqs == UNION {[1..n -> CsvCells] : n \in 0..MaxCsvTokens}

\* C26: decoding the comma-joined decimal text of a sequence of unsigned
\* 32-bit cell values, values of 2^31 and more included, with blanks and
\* empty tokens interspersed, returns that sequence
C26_CsvRoundTrip ==
    calc.fn = "decodeCSV" =>
        \A cells \in CsvCellSeqs :
            IsTextOf(calc.in, cells) => calc.out = <<FALSE, cells>>

\* "2147483648,,4294967295" was decoded
C26_Witness ==
    /\ calc.fn = "decodeCSV"
    /\ calc.in = <<<<"num", FALSE, 8, 0>>, <<"empty", FALSE, 0, 0>>,
                   <<"num", FALSE, 15, RotateHexFlag - 1>>>>
    /\ calc.out = <<FALSE, <<<<8, 0>>, <<15, RotateHexFlag - 1>>>>>>

\* C27: every non-empty token is parsed as an unsigned integer: a cell is
\* the value of its token, and a token that is no unsigned 32-bit integer
\* makes the decode fail
C27_CsvTokensAreUnsigned32 ==
    calc.fn = "decodeCSV" =>
        IF \A k \in 1..Len(NonEmpty(calc.in)) : IsCellText(NonEmpty(calc.in)[k])
        THEN IsTextOf(calc.in, calc.out[2]) /\ ~calc.out[1]
        ELSE calc.out[1]

(***************************************************************************)
(* Properties of the chunk lookup                                          *)
(***************************************************************************)
\* what the chunk numbered i of the layer decides for the tile (x, y)
DecidedBy(tmx, i, x, y) ==
    LET c == tmx.Layers[1].Data.Chunks[i]
        cells == decodeCSV(c.Content).data
        k == (y - c.Y) * c.Width + (x - c.X)
    IN  IF k >= Len(cells) \/ cells[k + 1] = <<0, 0>>
        THEN Looked([found |-> FALSE, tile |-> ZeroTile])
        ELSE Looked(getTile(tmx, x, y, cells[k + 1]))

Containing(tmx, x, y) ==
    {i \in 1..Len(tmx.Layers[1].Data.Chunks) : InChunk(tmx.Layers[1].Data.Chunks[i], x, y)}

\* C28: in an infinite layer the lookup of a tile is decided by the first
\* chunk, in document order, whose bounds contain it: if that chunk's cell
\* is out of the decoded range, zero or unresolvable, the tile is not found
\* and no later chunk is consulted
C28_FirstContainingChunkDecides ==
    calc.fn = "getChunkTileAt" =>
        LET tmx == DocOverlap(calc.in[1])
            S == Containing(tmx, calc.in[2], 0)
        IN  IF S = {}
            THEN ~calc.out.found
            ELSE /\ calc.out.found = DecidedBy(tmx, SetMin(S), calc.in[2], 0).found
                 /\ calc.out.found =>
                       calc.out.TileID = DecidedBy(tmx, SetMin(S), calc.in[2], 0).TileID

(***************************************************************************)
(* Properties of the tiles of tilemap.Map                                  *)
(***************************************************************************)
\* the cells of the cached region at which layer i of the map holds a tile,
\* in the order updateCache visits them
MapFoundCellsIn(tmx, region, layer, hits) ==
    Concat([j \in 1..Len(hits) |->
              SelectSeq(ChunkCells(region, layer.items[hits[j]].chunk),
                        LAMBDA cell : getTileFromChunk(tmx, layer.items[hits[j]].chunk,
                                                       cell[1], cell[2]).found)])

MapFoundCells(mp, i) ==
    IF IsVisible(Docs[mp.Tmx].Layers[i])
    THEN MapFoundCellsIn(Docs[mp.Tmx], mp.cachedRegion, mp.layers[i],
                         GridQuery(mp.layers[i], QueryRect(Docs[mp.Tmx], mp.cachedRegion)))
    ELSE <<>>

MapSlice(mp, i) ==
    SubSeqHalfOpen(mp.cachedData, mp.cachedPositions[i], mp.cachedPositions[i + 1])

\* every tile of the slice stands at the world position of its cell
AtWorldPositions(tmx, slice, cells) ==
    /\ Len(slice) = Len(cells)
    /\ \A k \in 1..Len(slice) :
          /\ slice[k].X = cells[k][1] * tmx.TileWidth
          /\ slice[k].Y = cells[k][2] * tmx.TileHeight
    /\ \A k, l \in 1..Len(slice) :
          cells[k] # cells[l] => <<slice[k].X, slice[k].Y>> # <<slice[l].X, slice[l].Y>>

\* C29: every Data record of tilemap.Map for the tile at the world tile
\* coordinate (x, y) has X = x * TileWidth and Y = y * TileHeight, for
\* chunks at any origin, so two tiles of distinct cells of one layer slice
\* never share a position
C29_MapTilesAtWorldPositions ==
    (target = "Map" /\ ret.op = "BufferFrame" /\ ret.path = "rebuild")
        => \A i \in 1..Len(m.layers) :
              AtWorldPositions(Docs[m.Tmx], MapSlice(m, i), MapFoundCells(m, i))

\* the encoding and compression the layers of a document declare, once per
\* chunk of the map
DeclaredEncodings(tmx, encs) ==
    [i \in 1..Len(tmx.Layers) |->
        [n \in 1..Len(encs[i]) |->
            <<tmx.Layers[i].Data.Encoding, tmx.Layers[i].Data.Compression>>]]

\* C30: each chunk SetTmx builds in tilemap.Map carries the encoding and the
\* compression its layer declares, so a Base64 layer yields the tiles the
\* same cell values stored as CSV yield
C30_MapChunksCarryDeclaredEncoding ==
    calc.fn = "Map.SetTmx" =>
        /\ Len(calc.out[1]) = Len(Docs[calc.in[1]].Layers)
        /\ calc.out[1] = DeclaredEncodings(Docs[calc.in[1]], calc.out[1])
        /\ calc.out[2] =
              BufferedTiles(BufferFrame([FreshMap(Len(Docs)) EXCEPT !.frame = calc.in[2]]).m)

(***************************************************************************)
(* Properties of the memo maps of a Tilemap                                *)
(***************************************************************************)
\* the memo entry under key is the tile the cell value v resolves to
MemoOf(tmx, memo, key, v) ==
    /\ v # <<0, 0>>
    /\ getTile(tmx, key[1], key[2], v).found
    /\ memo[key] = getTile(tmx, key[1], key[2], v).tile

\* a memo entry of a finite layer: the cell is inside the map and its decoded
\* value resolves to the entry
FiniteMemoOk(tmx, layer, key) ==
    /\ key[1] >= 0 /\ key[1] < tmx.Width /\ key[2] >= 0 /\ key[2] < tmx.Height
    /\ key[2] * tmx.Width + key[1] < Len(layer.Content)
    /\ MemoOf(tmx, layer.Tiles, key, CellValue(layer.Content, key[2] * tmx.Width + key[1]))

\* a memo entry of a layer of chunks: a chunk that contains the cell holds a
\* value that resolves to the entry
ChunkMemoOk(tmx, chunks, layer, key) ==
    \E k \in 1..Len(chunks) :
        /\ InChunk(chunks[k], key[1], key[2])
        /\ (key[2] - chunks[k].Y) * chunks[k].Width + (key[1] - chunks[k].X)
              < Len(layer.Chunks[k])
        /\ MemoOf(tmx, layer.Tiles, key,
                  CellValue(layer.Chunks[k],
                            (key[2] - chunks[k].Y) * chunks[k].Width
                               + (key[1] - chunks[k].X)))

MemoOk(tmx, i, layer) ==
    \A key \in DOMAIN layer.Tiles :
        IF IsInfinite(tmx)
        THEN ChunkMemoOk(tmx, tmx.Layers[i].Data.Chunks, layer, key)
        ELSE FiniteMemoOk(tmx, layer, key)

\* C32: every memo entry layer.Tiles[(x, y)] is the tile the layer's decoded
\* cell value at (x, y) resolves to in the current document; a lookup that
\* ends not-found leaves no entry
C32_MemoEntriesAreResolvedCells ==
    (target = "Tilemap" /\ tm.Tmx # NilTmx)
        => \A i \in 1..Len(tm.decodedLayers) :
              MemoOk(Docs[tm.Tmx], i, tm.decodedLayers[i])

\* a query answered from the cache after the lookups of DocA's first layer
\* were memoized: the cells (0, 1) and (1, 1) resolve, the others do not
C32_Witness ==
    /\ target = "Tilemap"
    /\ tm.Tmx = 1
    /\ ret.op = "GetTiles" /\ ret.path = "hit"
    /\ Cardinality(DOMAIN tm.decodedLayers[1].Tiles) = 2

(***************************************************************************)
(* Properties of a failing Tilemap.SetTmx                                  *)
(***************************************************************************)
\* a step in which a Tilemap.SetTmx returned an error
SetTmxFailedStep == target = "Tilemap" /\ ret'.op = "SetTmx" /\ ret'.err # ""

\* C33: a Tilemap.SetTmx that fails (nil document, no layers, a payload that
\* does not decode) commits nothing: the document, the bounds and the
\* decoded layers are those of before the call
C33_FailedSetTmxCommitsNothing ==
    [][SetTmxFailedStep =>
          /\ tm'.Tmx = tm.Tmx
          /\ Bounds(tm') = Bounds(tm)
          /\ tm'.decodedLayers = tm.decodedLayers]_vars

\* SetTmx(DocBadCSV) failed on a Tilemap that holds DocB
C33_Witness ==
    /\ target = "Tilemap"
    /\ ret.op = "SetTmx" /\ ret.err = ErrDecode
    /\ tm.Tmx = 2
    /\ Bounds(tm) = <<-2, 0, 4, 2>>
    /\ Len(tm.decodedLayers) = 2

(***************************************************************************)
(* Properties of the bounds in 32-bit arithmetic                           *)
(***************************************************************************)
\* C36: after every successful Tilemap.SetTmx, Bounds() has minX <= maxX and
\* minY <= maxY, for finite maps and for infinite maps with any number of
\* chunks, none included
C36_BoundsAreOrdered ==
    (target = "Tilemap" /\ ret.op = "SetTmx" /\ ret.err = "")
        => tm.minX <= tm.maxX /\ tm.minY <= tm.maxY

(***************************************************************************)
(* Properties of the buffers of a Tilemap                                  *)
(***************************************************************************)
\* two slices have an element of storage in common
SharesStorage(h, s, t) == s.arr = t.arr /\ Cap(h, s) > 0

\* the iterator still yields the slices it was returned with
YieldsAsReturned(h, it) == HeldSlices(h, it) = it.seen

\* the iterator shares no storage with the buffers of the Tilemap
ApartFromCache(h, st, it) ==
    /\ ~SharesStorage(h, it.tiles, st.data)
    /\ ~SharesStorage(h, it.positions, st.positions)

\* two iterators share no storage
ApartFromEachOther(h, it, other) ==
    /\ ~SharesStorage(h, it.tiles, other.tiles)
    /\ ~SharesStorage(h, it.positions, other.positions)

\* C31: an iterator GetTiles returned is a private snapshot: whatever
\* GetTiles (hit, compatible or full rebuild), SetTmx or FlushCache follows
\* on the Tilemap, the slices the iterator yields stay as they were, and two
\* iterators of two queries share no backing storage
C31_IteratorsArePrivateSnapshots ==
    target = "Store" =>
        \A k \in 1..Len(store.held) :
            /\ YieldsAsReturned(heap, store.held[k])
            /\ ApartFromCache(heap, store, store.held[k])
            /\ \A l \in 1..Len(store.held) :
                  l # k => ApartFromEachOther(heap, store.held[k], store.held[l])

\* an iterator over tiles of DocWide is held while a second query rebuilt the
\* cache with other tiles and a SetTmx followed
C31_Witness ==
    /\ target = "Store"
    /\ ret.op = "SetTmx" /\ ret.err = ""
    /\ Len(store.held) = 2
    /\ Len(store.held[1].seen) = 4
    /\ Len(store.held[1].seen[1]) = 16
    /\ store.held[2].seen # store.held[1].seen
    /\ store.held[2].tiles.len > 0

\* the step keeps the tile buffer's backing array
KeepsTileBuffer == store'.data.arr = store.data.arr

\* C35: the capacity of the cached tile buffer never decreases: SetTmx and
\* FlushCache only truncate it, a capacity-compatible rebuild keeps the
\* buffer, and a full rebuild replaces it only when its capacity is below
\* width * height * layerCount
C35_TileBufferOnlyGrows ==
    [][target = "Store" =>
          /\ Cap(heap', store'.data) >= Cap(heap, store.data)
          /\ ret'.op \in {"SetTmx", "FlushCache"} => KeepsTileBuffer
          /\ (ret'.op = "GetTiles" /\ ret'.path = "compatible") => KeepsTileBuffer
          /\ (ret'.op = "GetTiles" /\ ret'.path = "rebuild" /\ ~KeepsTileBuffer)
                => Cap(heap, store.data)
                      < TileBufferSize(tm'.cachedTileRegion, Len(tm'.decodedLayers))]_vars


\* the Layers the Maps hold, and the Chunks in the grids of those Layers
LiveLayers == UNION {{own.maps[k].layers[i] : i \in 1..Len(own.maps[k].layers)} :
                        k \in 1..Len(own.maps)}

GridChunks(l) == {own.grid[l][i] : i \in 1..Len(own.grid[l])}

LiveChunks == UNION {GridChunks(l) : l \in LiveLayers}

MapLayers(k) == {own.maps[k].layers[i] : i \in 1..Len(own.maps[k].layers)}

PutOnce(pool) == \A x \in BagToSet(pool) : CopiesIn(x, pool) <= 1

\* C34: whatever SetTmx and Flush calls are made on Maps that share the two
\* pools, no Chunk is in the grids of two Layers held by Maps, no Layer is
\* held by two Maps, no Chunk or Layer is both in its pool and held by a Map,
\* and no pool holds an object twice.
C34_PooledObjectsHaveOneOwner ==
    target = "Pool" =>
        /\ \A l1 \in LiveLayers, l2 \in LiveLayers :
              l1 # l2 => GridChunks(l1) \cap GridChunks(l2) = {}
        /\ \A k1 \in 1..Len(own.maps), k2 \in 1..Len(own.maps) :
              k1 # k2 => MapLayers(k1) \cap MapLayers(k2) = {}
        /\ LiveChunks \cap BagToSet(own.chunkPool) = {}
        /\ LiveLayers \cap BagToSet(own.layerPool) = {}
        /\ PutOnce(own.chunkPool)
        /\ PutOnce(own.layerPool)

\* two Maps hold a layer each after every Chunk the bounds allow has been
\* made, so that objects went through the pools: the first Map holds the
\* first seeded Chunk, the second one the last Layer made, and the chunk pool
\* holds a Chunk that a Flush put back
C34_Witness ==
    /\ target = "Pool"
    /\ Len(own.maps) = MaxMaps
    /\ ret.op = "SetTmx"
    /\ ret.err = ""
    /\ Len(own.maps[1].layers) = 1
    /\ Len(own.maps[2].layers) = 1
    /\ GridChunks(own.maps[1].layers[1]) = {1}
    /\ own.maps[2].layers[1] = MaxLayerObjs
    /\ own.chunks = MaxChunkObjs
    /\ BagToSet(own.chunkPool) # {}

=============================================================================
